---- MODULE Spec2Model ----
(***************************************************************************)
(* A model of the retrieval-and-generation pipeline of rohithwork/ggv:     *)
(* RAGSystem (src/rag_system.py) and the chunker (src/chunking.py).        *)
(*                                                                         *)
(* A message is a record [words, pad]: the set of vocabulary phrases that  *)
(* occur in it and the number of further words that match no phrase list.  *)
(* A conversation turn is a record [id, isUser, content] (the tuple        *)
(* (message_id, is_user, content, timestamp) of the messages table).       *)
(* The outcome of every external call (embedding model, vector store,      *)
(* reranker, language model) is chosen by the environment.                 *)
(***************************************************************************)
EXTENDS Integers, Sequences, FiniteSets, TLC

VARIABLES
    pc,                    \* position of the running call
    user_message,          \* user_message argument of the running call
    chat_history,          \* chat_history argument of the running call
    conversation_summary,  \* RAGSystem.conversation_summary
    calls,                 \* external calls made by the running call, in order
    hybrid_query,          \* value of _create_hybrid_query in retrieve_documents
    key_topics,            \* _extract_key_topics in _create_hybrid_query: value and transcript
    initial_results,       \* retrieve_documents: initial_results
    rerank_response,       \* retrieve_documents: rerank_response.results
    retrieved_docs,        \* value returned by retrieve_documents
    retrieve_status,       \* "none", "returned" or "raised"
    query_type,            \* value of _analyze_query_type
    selected_messages,     \* value of _select_relevant_messages
    messages,              \* value of _prepare_messages_with_memory
    failures,              \* the external calls of the running call that raised
    result,                \* outcome of generate_response_stream
    max_tokens,            \* chunk_content: the budget
    prefix_tokens,         \* chunk_content: count_tokens(prefix) of the section
    blocks,                \* the blocks of the section, each the token counts of its sentences
    blk,                   \* the block the loop of line 52 is at
    sub,                   \* the sentence the loop of line 59 is at
    tsplit,                \* the token slices of that sentence already handled
    current_chunk_units,   \* chunk_content: current_chunk_units
    current_chunk_token_count,
    chunks,                \* chunk_content: chunks
    index_store,           \* the records of the Pinecone index, by id
    index_chunks,          \* generate_and_store_embeddings: chunks
    batch_size,            \* generate_and_store_embeddings: batch_size
    progress_callback,     \* whether a progress_callback was given
    batch_num,             \* the batch the loop of line 38 is at
    batch_progress,        \* generate_and_store_embeddings: batch_progress
    generated_ids,         \* the values of unique_id of the running call, in order
    batch_log,             \* the batches the running call went through, with their outcomes
    callbacks,             \* the invocations of progress_callback of the running call
    written,               \* every record an upsert has stored, in any call
    upload,                \* the upload of the admin page under way
    runs,                  \* calls of generate_and_store_embeddings ended so far
    instance_summary,      \* conversation_summary of the RAGSystem instances, by object
    sess_pc,               \* position of each session's generate call
    sess_args,             \* user_message and chat_history of each session's generate call
    sess_read,             \* the summary each session's call put in its prompt
    sess_own,              \* the summary each session's own calls account for
    similarities,          \* _select_relevant_messages: similarities, in tenths
    conversation,          \* the messages of the current conversation in the database
    chat_id,               \* current_conversation_id of the session
    transcript,            \* _update_conversation_memory: the turns of transcript
    summary_from,          \* the conversations whose turns the stored summary derives from
    md_text,               \* parse_markdown: md_text, line by line
    structured_data        \* parse_markdown: structured_data

pipelineVars == <<pc, user_message, chat_history, conversation_summary, calls,
                  hybrid_query, key_topics, initial_results, rerank_response,
                  retrieved_docs,
                  retrieve_status, query_type, selected_messages, messages,
                  failures, result,
                  similarities>>

parseVars == <<md_text, structured_data>>

chunkVars == <<max_tokens, prefix_tokens, blocks, blk, sub, tsplit,
               current_chunk_units, current_chunk_token_count, chunks, parseVars>>

indexVars == <<index_store, index_chunks, batch_size, progress_callback, batch_num,
               batch_progress, generated_ids, batch_log, callbacks, written,
               upload, runs>>

sessVars == <<instance_summary, sess_pc, sess_args, sess_read, sess_own>>

chatVars == <<conversation, chat_id, transcript, summary_from>>

-----------------------------------------------------------------------------
(* Bounds of the model *)

\* longest chat history handed to generate_response_stream
MaxHist == 9
\* most matches the vector store returns (never more than TopK)
MaxMatches == 6
\* longest chat history handed to _select_relevant_messages on its own
MaxSelHist == 13
\* largest number of filler words of a message
MaxPad == 14
\* longest chat history handed to _create_hybrid_query on its own
MaxTopicHist == 17
\* longest such history whose turns take every authorship
MaxFlagHist == 6
\* longest such history whose similarities take three values
MaxSimHist == 11
\* most messages of a conversation when a prompt is sent on the chat page
MaxChatTurns == 5
\* most conversations of a session of the chat page
MaxChats == 2
\* most lines of a document handed to parse_markdown
MaxLines == 4
\* most documents handed to _prepare_messages_with_memory on its own
MaxDocs == 3
\* longest chat history handed to _update_conversation_memory on its own
MaxUpdHist == 10

-----------------------------------------------------------------------------
(* Sequence helpers *)

Min(a, b) == IF a <= b THEN a ELSE b

Max(a, b) == IF a >= b THEN a ELSE b

\* s[:k]
Take(s, k) == SubSeq(s, 1, Min(k, Len(s)))

\* s[-k:]
LastN(s, k) == SubSeq(s, Max(1, Len(s) - k + 1), Len(s))

Range(s) == {s[i] : i \in DOMAIN s}

RECURSIVE SeqOfSet(_)
\* the elements of a set of integers in increasing order
SeqOfSet(S) ==
    IF S = {} THEN <<>>
    ELSE LET m == CHOOSE x \in S : \A y \in S : x <= y
         IN  <<m>> \o SeqOfSet(S \ {m})

-----------------------------------------------------------------------------
(* Messages and histories *)

Vocab == {"why", "it", "comparison", "analysis", "outlook", "what is",
          "overview", "company", "market"}

\* len(w.split()) of a vocabulary phrase
WordCount(w) == IF w = "what is" THEN 2 ELSE 1

Pads == {0, 4, MaxPad}

Msg(ws, p) == [words |-> ws, pad |-> p]

AllMessages == {Msg(ws, p) : ws \in SUBSET Vocab, p \in Pads}

\* the content of the i-th turn of a history: i filler words
TurnText(i) == Msg({}, i)

\* message ids are unique (primary key of the messages table) and carry no order;
\* a conversation opens with a user turn and the two sides alternate
Turn(i, n) == [id |-> n + 1 - i, isUser |-> (i % 2 = 1), content |-> TurnText(i)]

HistOf(n) == [i \in 1..n |-> Turn(i, n)]

Histories(maxLen) == {HistOf(n) : n \in 0..maxLen}

\* a history whose turns are by the user or not as the flags say
HistFrom(flags) ==
    [i \in 1..Len(flags) |->
        [id |-> Len(flags) + 1 - i, isUser |-> flags[i], content |-> TurnText(i)]]

\* the histories up to maxFlags turns with every authorship, and the
\* alternating ones up to maxLen turns
HistoriesAnyAuthor(maxFlags, maxLen) ==
    {HistFrom(flags) : flags \in UNION {[1..n -> BOOLEAN] : n \in 0..maxFlags}}
        \cup {HistOf(n) : n \in maxFlags + 1..maxLen}

-----------------------------------------------------------------------------
(* RAGSystem._analyze_query_type *)

\* the phrases of the phrase lists that occur in a vocabulary phrase as substrings
Substrings(w) ==
    CASE w = "why"        -> {"why"}
      [] w = "it"         -> {}
      [] w = "comparison" -> {"comparison", "so"}
      [] w = "analysis"   -> {"analysis"}
      [] w = "outlook"    -> {"outlook"}
      [] w = "what is"    -> {"what is"}
      [] w = "overview"   -> {"overview"}
      [] w = "company"    -> {"company"}
      [] w = "market"     -> {"market"}
      [] OTHER            -> {}

\* phrase in message, for the phrases of the lists
PhrasesIn(message) == UNION {Substrings(w) : w \in message.words}

\* len(message.split())
NumWords(message) ==
    LET RECURSIVE Sum(_)
        Sum(S) == IF S = {} THEN 0
                  ELSE LET w == CHOOSE x \in S : TRUE
                       IN  WordCount(w) + Sum(S \ {w})
    IN  message.pad + Sum(message.words)

follow_up_phrases == {"what about", "how about", "and", "also", "then", "so",
                      "therefore", "but what if", "why", "could you",
                      "additionally", "furthermore"}

pronouns == {"it", "they", "them", "this", "that", "these", "those"}

comparative_phrases == {"versus", "compare", "comparison", "difference", "vs",
                        "better", "advantages", "disadvantages", "pros and cons",
                        "relative to"}

analytical_phrases == {"analyze", "analysis", "evaluate", "assessment", "outlook",
                       "perspective", "implications", "impact", "effects",
                       "strategy", "recommend", "opportunity", "risk", "potential",
                       "forecast"}

factual_phrases == {"what is", "how much", "when did", "where is", "who is", "data",
                    "statistics", "numbers", "percentage", "rate", "figure",
                    "amount", "total", "count", "value"}

market_phrases == {"market", "industry", "sector", "overview", "landscape",
                   "trends", "growth", "expansion", "decline", "outlook"}

overview_words == {"overview", "summary", "landscape", "state of"}

company_indicators == {"company", " inc", " corp", " ltd", " llc"}

is_short_query(message) == NumWords(message) < 5

has_pronouns(message) == message.words \cap pronouns # {}

FollowUpRule(message, history) ==
    /\ history # <<>>
    /\ \/ PhrasesIn(message) \cap follow_up_phrases # {}
       \/ is_short_query(message) /\ has_pronouns(message)

ComparativeRule(message) == PhrasesIn(message) \cap comparative_phrases # {}

AnalyticalRule(message) == PhrasesIn(message) \cap analytical_phrases # {}

FactualRule(message) == PhrasesIn(message) \cap factual_phrases # {}

MarketRule(message) ==
    /\ PhrasesIn(message) \cap market_phrases # {}
    /\ PhrasesIn(message) \cap overview_words # {}

CompanyRule(message) ==
    /\ PhrasesIn(message) \cap company_indicators # {}
    /\ NumWords(message) < 15

\* a slip in the order of the checks: factual is tested before comparative
AnalyzeQueryTypeFactualFirst(message, history) ==
    IF FollowUpRule(message, history) THEN "follow_up"
    ELSE IF FactualRule(message) THEN "factual"
    ELSE IF ComparativeRule(message) THEN "comparative"
    ELSE IF AnalyticalRule(message) THEN "analytical"
    ELSE IF MarketRule(message) THEN "market_overview"
    ELSE IF CompanyRule(message) THEN "company_profile"
    ELSE "general"

AnalyzeQueryType(message, history) ==
    IF FollowUpRule(message, history) THEN "follow_up"
    ELSE IF ComparativeRule(message) THEN "comparative"
    ELSE IF AnalyticalRule(message) THEN "analytical"
    ELSE IF FactualRule(message) THEN "factual"
    ELSE IF MarketRule(message) THEN "market_overview"
    ELSE IF CompanyRule(message) THEN "company_profile"
    ELSE "general"

-----------------------------------------------------------------------------
(* RAGSystem._extract_key_topics and RAGSystem._create_hybrid_query *)

\* outcomes of a language-model call: a non-empty text, an empty text, a
\* response without the attribute read, an exception
LlmOutcomes == {"ok", "empty", "notext", "fail"}

NoTopics == [kind |-> "none", queries |-> <<>>]

\* [entry[2] for entry in chat_history if entry[1]]
UserQueries(history) ==
    LET users == SelectSeq(history, LAMBDA t : t.isUser)
    IN  [i \in 1..Len(users) |-> users[i].content]

\* the turns of chat_history[-15:] handed to co.summarize
TranscriptTurns == 15

\* the transcript of line 205, or nothing when the model is not called
KeyTopicTranscript(history) ==
    IF Len(history) > 5
    THEN [i \in 1..Len(LastN(history, TranscriptTurns)) |->
            [isUser |-> LastN(history, TranscriptTurns)[i].isUser,
             content |-> LastN(history, TranscriptTurns)[i].content]]
    ELSE <<>>

NoKeyTopics == [topics |-> NoTopics, transcript |-> <<>>]

BasicTopics(history) ==
    IF UserQueries(history) = <<>> THEN NoTopics
    ELSE [kind |-> "recent", queries |-> LastN(UserQueries(history), 3)]

\* an extraction that gives nothing when the model call fails
ExtractKeyTopicsNoFallback(history, llm) ==
    IF history = <<>> THEN NoTopics
    ELSE IF Len(history) > 5
         THEN IF llm = "ok" THEN [kind |-> "summary", queries |-> <<>>] ELSE NoTopics
         ELSE BasicTopics(history)

ExtractKeyTopics(history, llm) ==
    IF history = <<>> THEN NoTopics
    ELSE IF Len(history) > 5 /\ llm # "fail"
         THEN IF llm = "ok" THEN [kind |-> "summary", queries |-> <<>>] ELSE NoTopics
         ELSE BasicTopics(history)

\* the external calls _extract_key_topics makes
KeyTopicCalls(history) == IF Len(history) > 5 THEN <<"summarize">> ELSE <<>>

Failed(call, e) == [call |-> call, error |-> e]

\* the exception of co.summarize, caught at line 220
KeyTopicFailures(history, llm) ==
    IF Len(history) > 5 /\ llm = "fail" THEN <<Failed("summarize", "error")>> ELSE <<>>

RECURSIVE ScanBack(_, _, _)
\* the loop of lines 167-177: from turn i back to the first, the texts of the
\* user turns, until 3 are held
ScanBack(history, i, found) ==
    IF i = 0 \/ Len(found) >= 3 THEN found
    ELSE IF history[i].isUser
         THEN ScanBack(history, i - 1, Append(found, history[i].content))
         ELSE ScanBack(history, i - 1, found)

\* recent_queries.reverse()
Reverse(s) == [i \in 1..Len(s) |-> s[Len(s) + 1 - i]]

\* the recent queries left newest first
RecentQueriesNewestFirst(history) == ScanBack(history, Len(history), <<>>)

\* recent_queries of lines 164-180
RecentQueries(history) == Reverse(ScanBack(history, Len(history), <<>>))

CreateHybridQuery(query, history, llm) ==
    LET recent_queries == RecentQueries(history)
        conversation_context == ExtractKeyTopics(history, llm)
    IN  IF history = <<>> THEN [query |-> query, recent |-> <<>>, topics |-> NoTopics]
        ELSE IF recent_queries # <<>> /\ conversation_context # NoTopics
             THEN [query |-> query, recent |-> recent_queries,
                   topics |-> conversation_context]
        ELSE IF recent_queries # <<>>
             THEN [query |-> query, recent |-> recent_queries, topics |-> NoTopics]
        ELSE [query |-> query, recent |-> <<>>, topics |-> NoTopics]

-----------------------------------------------------------------------------
(* RAGSystem.retrieve_documents *)

\* top_k of the vector-store query
TopK == 8
\* top_n of the rerank request
RerankTopN == 8
\* the slice [:5] of both returns
ReturnLimit == 5
\* a document that carries no "rerank_score" key
NoScore == -1

\* the text of a stored chunk: its body alone, "# heading\n\n" before its
\* body (chunking.py, lines 44 and 70), or nothing (the default of line 53)
ChunkShapes == {"plain", "headed", "blank"}

ChunkText(i, shape) == [chunk |-> i, shape |-> shape]

Doc(i) == [text |-> ChunkText(i, "plain"), rerank_score |-> NoScore]

\* how many matches the vector store returns: none, one, the most, one fewer
MatchCounts == {n \in {0, 1, MaxMatches - 1, MaxMatches} : n <= TopK}

\* the matches of the vector store, best first
InitialResults(n) == [i \in 1..n |-> Doc(i)]

\* relevance scores the reranker may give to n candidates
ScoreFns(n) == {[i \in 1..n |-> i], [i \in 1..n |-> i % 2]}

\* rerank_response.results: k <= top_n results, here in the order of the indexes
RerankResponses(n) ==
    {[j \in 1..k |-> [index |-> j, relevance_score |-> s[j]]] :
        k \in 0..Min(RerankTopN, n), s \in ScoreFns(n)}

\* the orders in which the reranker may list candidates: first to last, last
\* to first, and from the third on
IndexOrders(n) ==
    {[j \in 1..n |-> j], [j \in 1..n |-> n + 1 - j], [j \in 1..n |-> ((j + 1) % n) + 1]}

\* relevance scores by position in the response: falling, rising, alternating,
\* all equal
PositionScores(n) ==
    {[j \in 1..n |-> n - j], [j \in 1..n |-> j], [j \in 1..n |-> j % 2],
     [j \in 1..n |-> 1]}

\* rerank_response.results: k <= top_n results about distinct candidates
RerankResponsesAnyOrder(n) ==
    {[j \in 1..k |-> [index |-> o[j], relevance_score |-> sc[j]]] :
        k \in 0..Min(RerankTopN, n), o \in IndexOrders(n), sc \in PositionScores(n)}

\* the loop of lines 74-78
Scored(initial, response) ==
    [j \in 1..Len(response) |->
        [initial[response[j].index] EXCEPT !.rerank_score = response[j].relevance_score]]

\* a list left in the order of the response
LeftAsReturned(docs) == docs

RECURSIVE SortedByScore(_)
\* sorted(reranked_results, key=rerank_score, reverse=True): stable
SortedByScore(docs) ==
    IF docs = <<>> THEN <<>>
    ELSE LET rest == SortedByScore(SubSeq(docs, 1, Len(docs) - 1))
             d == docs[Len(docs)]
             before == SelectSeq(rest, LAMBDA x : x.rerank_score >= d.rerank_score)
             after == SelectSeq(rest, LAMBDA x : x.rerank_score < d.rerank_score)
         IN  before \o <<d>> \o after

\* the sort without the slice [:5]
RerankedUnsliced(initial, response) == SortedByScore(Scored(initial, response))

Reranked(initial, response) == Take(SortedByScore(Scored(initial, response)), ReturnLimit)

\* an except branch that gives up the candidates
RerankFallbackEmpty(initial) == <<>>

\* the except branch of line 84
RerankFallback(initial) == Take(initial, ReturnLimit)

-----------------------------------------------------------------------------
(* RAGSystem._select_relevant_messages *)

\* the last turns that are always included
RecentTurns == 6
\* [-4:] of the argsort
TopSimilar == 4
\* threshold = 0.3, similarities in tenths
Threshold == 3
\* len(chat_history) > 12 of the fallback
FallbackMinHist == 12

\* a similarity at the threshold and one above it
SimValues == {3, 5}

\* np.argsort(similarities)[-4:]: the positions of the largest similarities
\* (ties are broken as the sort leaves them)
TopIndices(sims) ==
    LET m == Len(sims)
    IN  {T \in SUBSET (1..m) :
            /\ Cardinality(T) = Min(TopSimilar, m)
            /\ \A i \in T, j \in (1..m) \ T : sims[j] <= sims[i]}

\* message_indices.get(msg[0], 0)
MessageIndex(history, msg) ==
    IF \E i \in 1..Len(history) : history[i].id = msg.id
    THEN (CHOOSE i \in 1..Len(history) :
            /\ history[i].id = msg.id
            /\ \A j \in i + 1..Len(history) : history[j].id # msg.id) - 1
    ELSE 0

\* the selection left in the order of its collection
UnsortedByIndex(history, msgs) == msgs

RECURSIVE SortedByIndex(_, _)
\* selected_messages.sort(key=message_indices.get): stable
SortedByIndex(history, msgs) ==
    IF msgs = <<>> THEN <<>>
    ELSE LET rest == SortedByIndex(history, SubSeq(msgs, 1, Len(msgs) - 1))
             d == msgs[Len(msgs)]
             k == MessageIndex(history, d)
             before == SelectSeq(rest, LAMBDA x : MessageIndex(history, x) <= k)
             after == SelectSeq(rest, LAMBDA x : MessageIndex(history, x) > k)
         IN  before \o <<d>> \o after

\* history[idx] for idx in sorted(indices)
TurnsAt(history, indices) ==
    LET order == SeqOfSet(indices)
    IN  [i \in 1..Len(order) |-> history[order[i]]]

\* a selection that takes the most similar earlier turns whatever their similarity
SelectRelevantMessagesNoThreshold(history, embedOk, sims, top) ==
    IF Len(history) <= RecentTurns THEN history
    ELSE LET recent == LastN(history, RecentTurns)
             extra == IF embedOk THEN TurnsAt(history, top)
                      ELSE IF Len(history) > FallbackMinHist THEN Take(history, 2)
                      ELSE <<>>
         IN  SortedByIndex(history, recent \o extra)

SelectRelevantMessages(history, embedOk, sims, top) ==
    IF Len(history) <= RecentTurns THEN history
    ELSE LET recent == LastN(history, RecentTurns)
             relevant == {i \in top : sims[i] > Threshold}
             extra == IF embedOk THEN TurnsAt(history, relevant)
                      ELSE IF Len(history) > FallbackMinHist THEN Take(history, 2)
                      ELSE <<>>
         IN  SortedByIndex(history, recent \o extra)

\* the similarities of the earlier turns to the query, taken from a set of values
SimilaritiesIn(history, values) ==
    IF Len(history) <= RecentTurns THEN {<<>>}
    ELSE [1..Len(history) - RecentTurns -> values]

\* the similarities of the earlier turns to the query
Similarities(history) == SimilaritiesIn(history, SimValues)

\* the values of the similarities when the selection is called on its own:
\* two values above the threshold for the histories up to MaxSimHist turns
SelectSimValues(history) ==
    IF Len(history) <= MaxSimHist THEN SimValues \cup {Threshold + 4} ELSE SimValues

\* the external calls _select_relevant_messages makes
SelectCalls(history) ==
    IF Len(history) > RecentTurns THEN <<"encode_history">> ELSE <<>>

\* the exception of embedding_model.encode, caught at line 567
SelectFailures(history, embedOk) ==
    IF Len(history) > RecentTurns /\ ~embedOk
    THEN <<Failed("encode_history", "error")>> ELSE <<>>

-----------------------------------------------------------------------------
(* RAGSystem._update_conversation_memory *)

\* len(chat_history) < 4: no summary
MinSummaryHist == 4
\* len(chat_history) > 8 of the fallback summary
FallbackSummaryHist == 8

EmptySummary == [kind |-> "empty", queries |-> <<>>]

\* an update that summarises however short the history
UpdateConversationMemoryUnguarded(summary, message, history, llm) ==
    CASE llm = "ok"     -> [kind |-> "llm", queries |-> <<>>]
      [] llm = "empty"  -> EmptySummary
      [] llm = "notext" -> summary
      [] OTHER          -> IF Len(history) > 8
                           THEN [kind |-> "topics",
                                 queries |-> LastN(UserQueries(history), 5)]
                           ELSE summary

\* an update whose fallback summary is written however short the history
UpdateConversationMemoryFallbackAlways(summary, message, history, llm) ==
    IF Len(history) < MinSummaryHist THEN summary
    ELSE CASE llm = "ok"     -> [kind |-> "llm", queries |-> <<>>]
           [] llm = "empty"  -> EmptySummary
           [] llm = "notext" -> summary
           [] OTHER          -> [kind |-> "topics",
                                 queries |-> LastN(UserQueries(history), 5)]

UpdateConversationMemory(summary, message, history, llm) ==
    IF Len(history) < MinSummaryHist THEN summary
    ELSE CASE llm = "ok"     -> [kind |-> "llm", queries |-> <<>>]
           [] llm = "empty"  -> EmptySummary
           [] llm = "notext" -> summary
           [] OTHER          -> IF Len(history) > FallbackSummaryHist
                                THEN [kind |-> "topics",
                                      queries |-> LastN(UserQueries(history), 5)]
                                ELSE summary

\* the external calls _update_conversation_memory makes
UpdateCalls(history) == IF Len(history) < MinSummaryHist THEN <<>> ELSE <<"chat">>

\* the exception of co.chat, caught at line 633
UpdateFailures(history, llm) ==
    IF Len(history) >= MinSummaryHist /\ llm = "fail"
    THEN <<Failed("chat", "error")>> ELSE <<>>

-----------------------------------------------------------------------------
(* RAGSystem._prepare_messages_with_memory *)

\* text.split("\n\n") of the text of one chunk
Paragraphs(text) ==
    CASE text.shape = "plain"  -> <<[chunk |-> text.chunk, part |-> "body"]>>
      [] text.shape = "headed" -> <<[chunk |-> text.chunk, part |-> "heading"],
                                    [chunk |-> text.chunk, part |-> "body"]>>
      [] OTHER                 -> <<[chunk |-> text.chunk, part |-> "blank"]>>

RECURSIVE Context(_)
\* line 232 and line 511: "\n\n".join of the texts, seen as what
\* context.split("\n\n") makes of it; the empty string splits into one
\* blank piece
Context(docs) ==
    IF docs = <<>> THEN <<[chunk |-> 0, part |-> "blank"]>>
    ELSE IF Len(docs) = 1 THEN Paragraphs(docs[1].text)
    ELSE Paragraphs(docs[1].text) \o Context(Tail(docs))

\* lines 506-523: the pieces of the context, each under the number of its
\* "SOURCE i:" line, 0 for a piece without one
EnhanceContextPresentation(context, query_type_) ==
    IF Len(context) <= 1 \/ query_type_ = "follow_up"
    THEN [i \in 1..Len(context) |-> [source |-> 0, text |-> context[i]]]
    ELSE LET kept == SeqOfSet({i \in 1..Len(context) : context[i].part # "blank"})
         IN  [k \in 1..Len(kept) |-> [source |-> kept[k], text |-> context[kept[k]]]]

\* lines 448-504: the header of the label, the formatted context, the query
FormatContextForQuery(message, context, query_type_) ==
    [header |-> query_type_,
     context |-> EnhanceContextPresentation(context, query_type_),
     query |-> message]

\* a prompt whose turns all go under the role user
PrepareMessagesTurnsAsUser(summary, label, selected, docs, message) ==
    <<[role |-> "system", kind |-> "system", body |-> <<label>>]>>
    \o (IF summary # EmptySummary
        THEN <<[role |-> "system", kind |-> "memory", body |-> <<summary>>]>>
        ELSE <<>>)
    \o [i \in 1..Len(selected) |->
          [role |-> "user", kind |-> "turn", body |-> <<selected[i].content>>]]
    \o <<[role |-> "user", kind |-> "context",
          body |-> <<FormatContextForQuery(message, Context(docs), label)>>]>>

\* a prompt that leaves the summary out
PrepareMessagesNoMemory(summary, label, selected, docs, message) ==
    <<[role |-> "system", kind |-> "system", body |-> <<label>>]>>
    \o [i \in 1..Len(selected) |->
          [role |-> IF selected[i].isUser THEN "user" ELSE "assistant",
           kind |-> "turn", body |-> <<selected[i].content>>]]
    \o <<[role |-> "user", kind |-> "context",
          body |-> <<FormatContextForQuery(message, Context(docs), label)>>]>>

PrepareMessages(summary, label, selected, docs, message) ==
    <<[role |-> "system", kind |-> "system", body |-> <<label>>]>>
    \o (IF summary # EmptySummary
        THEN <<[role |-> "system", kind |-> "memory", body |-> <<summary>>]>>
        ELSE <<>>)
    \o [i \in 1..Len(selected) |->
          [role |-> IF selected[i].isUser THEN "user" ELSE "assistant",
           kind |-> "turn", body |-> <<selected[i].content>>]]
    \o <<[role |-> "user", kind |-> "context",
          body |-> <<FormatContextForQuery(message, Context(docs), label)>>]>>

-----------------------------------------------------------------------------
(* parse_markdown (src/chunking.py).  A document is the sequence of its      *)
(* lines; a line is its position and what it is: a main heading ("# " and a  *)
(* text that does not begin with "*"), a line "# *..." that the pattern of   *)
(* line 8 refuses, any other text, or a blank line.                          *)

LineKinds == {"heading", "starred", "text", "blank"}

\* the documents of up to MaxLines lines
Documents ==
    UNION {{[i \in 1..n |-> [n |-> i, kind |-> kinds[i]]] : kinds \in [1..n -> LineKinds]} :
              n \in 0..MaxLines}

RECURSIVE StripLeft(_)
\* str.lstrip() of a text: the blank lines it begins with are gone
StripLeft(lines) ==
    IF lines # <<>> /\ lines[1].kind = "blank" THEN StripLeft(Tail(lines)) ELSE lines

\* str.strip() of a text
Strip(lines) ==
    LET left == StripLeft(lines)
        back == StripLeft([i \in 1..Len(left) |-> left[Len(left) + 1 - i]])
    IN  [i \in 1..Len(back) |-> back[Len(back) + 1 - i]]

\* lines 22-36: re.split at the main headings; parts[0], the text before the
\* first heading, is left out by parts[1:]
ParseMarkdown(text) ==
    LET headings == SeqOfSet({i \in 1..Len(text) : text[i].kind = "heading"})
        End(k) == IF k < Len(headings) THEN headings[k + 1] - 1 ELSE Len(text)
    IN  IF headings = <<>>
        THEN <<[main_heading |-> <<>>, content |-> Strip(text)]>>
        ELSE [k \in 1..Len(headings) |->
                [main_heading |-> <<text[headings[k]]>>,
                 content |-> Strip(SubSeq(text, headings[k] + 1, End(k)))]]

-----------------------------------------------------------------------------
(* chunk_content (src/chunking.py), for one section of parsed_data.  A      *)
(* sentence is its number of tokens; a block is the sequence of its         *)
(* sentences, and its tokens are those of its sentences; a blank block is   *)
(* the empty sequence.                                                      *)

\* the max_tokens argument
Budget == 3
\* the tokens of the longest sentence
MaxUnit == 4

SentSizes == {1, 2, MaxUnit}

BlockShapes == {<<>>} \cup {<<a>> : a \in SentSizes}
                      \cup {<<a, b>> : a \in SentSizes, b \in SentSizes}

Sections == {<<>>} \cup {<<a>> : a \in BlockShapes}
                   \cup {<<a, b>> : a \in BlockShapes, b \in BlockShapes}

\* count_tokens(prefix): no heading, a short heading, and headings that leave
\* no room in the budget
Prefixes == {0, 1, Budget, Budget + 1}

RECURSIVE BlockTokens(_)
\* count_tokens(block)
BlockTokens(block) ==
    IF block = <<>> THEN 0 ELSE block[1] + BlockTokens(Tail(block))

\* len(range(0, n, step)) of split_text_by_tokens, for step > 0
NumSlices(n, step) == (n + step - 1) \div step

\* len(tokens[i:i+max_tokens]) of the k-th slice
SliceLen(n, step, k) == Min(step, n - (k - 1) * step)

\* count_tokens(token_split) after decode and strip: the tokens of the slice,
\* or one more when the stripped text no longer starts with the slice's first token
SliceRecount(len) == {len, len + 1}

Unit(b, s, k, n) == [blk |-> b, sub |-> s, slice |-> k, tokens |-> n]

\* the chunk of a flush: text = prefix + " ".join(units)
Chunk(units) == [units |-> units]

\* an accumulation that restarts at zero after a flush
RestartCountZero(prefix) == 0

\* current_chunk_token_count = prefix_tokens after a flush
RestartCount(prefix) == prefix

\* lines 69-78, 80-89 and 91-100: flush if the unit does not fit, then append it
AddUnit(u) ==
    IF current_chunk_token_count + u.tokens > max_tokens
    THEN /\ chunks' = Append(chunks, Chunk(current_chunk_units))
         /\ current_chunk_units' = <<u>>
         /\ current_chunk_token_count' = RestartCount(prefix_tokens) + u.tokens
    ELSE /\ chunks' = chunks
         /\ current_chunk_units' = Append(current_chunk_units, u)
         /\ current_chunk_token_count' = current_chunk_token_count + u.tokens

NextBlock == blk' = blk + 1 /\ sub' = 1 /\ tsplit' = 0

NextSentence ==
    IF sub < Len(blocks[blk])
    THEN blk' = blk /\ sub' = sub + 1 /\ tsplit' = 0
    ELSE NextBlock

ChunkInit ==
    /\ max_tokens = Budget
    /\ prefix_tokens = 0
    /\ blocks = <<>>
    /\ blk = 1
    /\ sub = 1
    /\ tsplit = 0
    /\ current_chunk_units = <<>>
    /\ current_chunk_token_count = 0
    /\ chunks = <<>>
    /\ md_text = <<>>
    /\ structured_data = <<>>

pipelineData == <<user_message, chat_history, conversation_summary, calls,
                  hybrid_query, key_topics, initial_results, rerank_response,
                  retrieved_docs,
                  retrieve_status, query_type, selected_messages, messages,
                  failures, result,
                  similarities>>

\* parse_markdown is called with a document
ParseOnly ==
    /\ pc = "idle"
    /\ \E text \in Documents :
          /\ md_text' = text
          /\ structured_data' = ParseMarkdown(text)
    /\ pc' = "parsed"
    /\ UNCHANGED <<max_tokens, prefix_tokens, blocks, blk, sub, tsplit,
                   current_chunk_units, current_chunk_token_count, chunks>>
    /\ UNCHANGED <<pipelineData, indexVars, sessVars, chatVars>>

\* the sections are handed back
ParseDone ==
    /\ pc = "parsed"
    /\ pc' = "idle"
    /\ md_text' = <<>>
    /\ structured_data' = <<>>
    /\ UNCHANGED <<max_tokens, prefix_tokens, blocks, blk, sub, tsplit,
                   current_chunk_units, current_chunk_token_count, chunks>>
    /\ UNCHANGED <<pipelineData, indexVars, sessVars, chatVars>>

\* lines 39-50
ChunkStart ==
    /\ pc = "idle"
    /\ \E sec \in Sections, p \in Prefixes :
          /\ blocks' = sec
          /\ prefix_tokens' = p
          /\ current_chunk_token_count' = p
    /\ max_tokens' = Budget
    /\ blk' = 1
    /\ sub' = 1
    /\ tsplit' = 0
    /\ current_chunk_units' = <<>>
    /\ chunks' = <<>>
    /\ pc' = "chunking"
    /\ UNCHANGED <<pipelineData, indexVars, sessVars, chatVars, parseVars>>

\* lines 53-55: a blank block is skipped
BlankBlock ==
    /\ pc = "chunking"
    /\ blk <= Len(blocks)
    /\ blocks[blk] = <<>>
    /\ NextBlock
    /\ UNCHANGED <<pc, max_tokens, prefix_tokens, blocks, current_chunk_units,
                   current_chunk_token_count, chunks>>
    /\ UNCHANGED <<pipelineData, indexVars, sessVars, chatVars, parseVars>>

\* lines 90-100: a block that fits behind the prefix is one unit
WholeBlock ==
    /\ pc = "chunking"
    /\ blk <= Len(blocks)
    /\ blocks[blk] # <<>>
    /\ ~(BlockTokens(blocks[blk]) > max_tokens - prefix_tokens)
    /\ AddUnit(Unit(blk, 0, 0, BlockTokens(blocks[blk])))
    /\ NextBlock
    /\ UNCHANGED <<pc, max_tokens, prefix_tokens, blocks>>
    /\ UNCHANGED <<pipelineData, indexVars, sessVars, chatVars, parseVars>>

\* lines 79-89: a sentence of a larger block that fits behind the prefix
SentenceUnit ==
    /\ pc = "chunking"
    /\ blk <= Len(blocks)
    /\ blocks[blk] # <<>>
    /\ BlockTokens(blocks[blk]) > max_tokens - prefix_tokens
    /\ ~(blocks[blk][sub] > max_tokens - prefix_tokens)
    /\ AddUnit(Unit(blk, sub, 0, blocks[blk][sub]))
    /\ NextSentence
    /\ UNCHANGED <<pc, max_tokens, prefix_tokens, blocks>>
    /\ UNCHANGED <<pipelineData, indexVars, sessVars, chatVars, parseVars>>

\* lines 64-78: the next token slice of a sentence that does not fit
TokenSlice ==
    /\ pc = "chunking"
    /\ blk <= Len(blocks)
    /\ blocks[blk] # <<>>
    /\ BlockTokens(blocks[blk]) > max_tokens - prefix_tokens
    /\ blocks[blk][sub] > max_tokens - prefix_tokens
    /\ max_tokens - prefix_tokens > 0
    /\ LET step == max_tokens - prefix_tokens
           n == blocks[blk][sub]
           k == tsplit + 1
       IN  /\ \E unit_tokens \in SliceRecount(SliceLen(n, step, k)) :
                 AddUnit(Unit(blk, sub, k, unit_tokens))
           /\ IF k < NumSlices(n, step)
              THEN blk' = blk /\ sub' = sub /\ tsplit' = k
              ELSE NextSentence
    /\ UNCHANGED <<pc, max_tokens, prefix_tokens, blocks>>
    /\ UNCHANGED <<pipelineData, indexVars, sessVars, chatVars, parseVars>>

\* lines 65 and 16: range(0, len(tokens), 0) raises ValueError
SliceStepZero ==
    /\ pc = "chunking"
    /\ blk <= Len(blocks)
    /\ blocks[blk] # <<>>
    /\ blocks[blk][sub] > max_tokens - prefix_tokens
    /\ max_tokens - prefix_tokens = 0
    /\ pc' = "chunk_raised"
    /\ UNCHANGED chunkVars
    /\ UNCHANGED <<pipelineData, indexVars, sessVars, chatVars, parseVars>>

\* lines 65-66 and 16: range(0, len(tokens), step) is empty for step < 0, and
\* the sentence yields no unit
SliceStepNegative ==
    /\ pc = "chunking"
    /\ blk <= Len(blocks)
    /\ blocks[blk] # <<>>
    /\ blocks[blk][sub] > max_tokens - prefix_tokens
    /\ max_tokens - prefix_tokens < 0
    /\ NextSentence
    /\ UNCHANGED <<pc, max_tokens, prefix_tokens, blocks, current_chunk_units,
                   current_chunk_token_count, chunks>>
    /\ UNCHANGED <<pipelineData, indexVars, sessVars, chatVars, parseVars>>

\* lines 102-109: the accumulation left at the end of the section
FinishSection ==
    /\ pc = "chunking"
    /\ blk > Len(blocks)
    /\ chunks' = IF current_chunk_units # <<>>
                 THEN Append(chunks, Chunk(current_chunk_units))
                 ELSE chunks
    /\ pc' = "chunked"
    /\ UNCHANGED <<max_tokens, prefix_tokens, blocks, blk, sub, tsplit,
                   current_chunk_units, current_chunk_token_count>>
    /\ UNCHANGED <<pipelineData, indexVars, sessVars, chatVars, parseVars>>

\* the chunks are handed back
ChunkDone ==
    /\ pc \in {"chunked", "chunk_raised"}
    /\ pc' = "idle"
    /\ max_tokens' = Budget
    /\ prefix_tokens' = 0
    /\ blocks' = <<>>
    /\ blk' = 1
    /\ sub' = 1
    /\ tsplit' = 0
    /\ current_chunk_units' = <<>>
    /\ current_chunk_token_count' = 0
    /\ chunks' = <<>>
    /\ UNCHANGED <<pipelineData, indexVars, sessVars, chatVars, parseVars>>

-----------------------------------------------------------------------------
(* RAGSystem.generate_response_stream (the definition of line 229, which    *)
(* replaces the one of line 88) and the calls it makes, one action per      *)
(* external call                                                            *)

\* the histories handed to generate_response_stream: none, one on each side of
\* the threshold 4 of the summary, and one beyond the thresholds 5, 6 and 8
GenHistories == {HistOf(n) : n \in {0, 3, 4, MaxHist}}

\* the messages handed to generate_response_stream
GenMessages == {Msg({}, 4), Msg({"it"}, 0)}

\* what an external call may raise
Errors == {"timeout", "api_error"}

ErrorText == "Error generating response. Please try again."

NoMessage == Msg({}, 0)

NoHybridQuery == [query |-> NoMessage, recent |-> <<>>, topics |-> NoTopics]

NoResult == [status |-> "none", stream |-> <<>>, docs |-> <<>>]

\* the events of the stream of co.chat_stream
ChatStreamEvents == <<[type |-> "content-delta", text |-> "answer"],
                      [type |-> "message-end", text |-> ""]>>

\* the error_generator of the replaced definition (line 149), which quotes the exception
ErrorStreamQuoting(e) == <<[type |-> "str", text |-> e]>>

\* the values error_generator yields
ErrorStream(e) == <<[type |-> "str", text |-> ErrorText]>>

Raised(e) == [status |-> "raised", stream |-> <<>>, docs |-> <<>>]

Returned(stream, docs) == [status |-> "returned", stream |-> stream, docs |-> docs]

\* the statements of generate_response_stream with the summary update placed
\* before the call of the streaming model
NextStageUpdateFirst(stage) ==
    CASE stage = "retrieve"      -> "classify"
      [] stage = "classify"      -> "compose"
      [] stage = "compose"       -> "update_memory"
      [] stage = "update_memory" -> "chat_stream"
      [] stage = "chat_stream"   -> "done"

\* the statement that follows each stage that ends normally: line 231, then
\* line 235 (whose first call is that of line 326), line 239, line 247, line 249
NextStage(stage) ==
    CASE stage = "retrieve"      -> "classify"
      [] stage = "classify"      -> "compose"
      [] stage = "compose"       -> "chat_stream"
      [] stage = "chat_stream"   -> "update_memory"
      [] stage = "update_memory" -> "done"

PipelineInit ==
    /\ pc = "idle"
    /\ user_message = NoMessage
    /\ chat_history = <<>>
    /\ conversation_summary = EmptySummary
    /\ calls = <<>>
    /\ hybrid_query = NoHybridQuery
    /\ key_topics = NoKeyTopics
    /\ initial_results = <<>>
    /\ rerank_response = <<>>
    /\ retrieved_docs = <<>>
    /\ retrieve_status = "none"
    /\ query_type = "none"
    /\ selected_messages = <<>>
    /\ messages = <<>>
    /\ failures = <<>>
    /\ result = NoResult
    /\ similarities = <<>>

\* lines 229-231 and 39: the call starts and retrieve_documents builds the hybrid query
GenStart ==
    /\ similarities' = <<>>
    /\ UNCHANGED <<chunkVars, indexVars, sessVars, chatVars>>
    /\ pc = "idle"
    /\ \E m \in GenMessages, h \in GenHistories, llm \in LlmOutcomes :
          /\ user_message' = m
          /\ chat_history' = h
          /\ hybrid_query' = CreateHybridQuery(m, h, llm)
          /\ key_topics' = [topics |-> ExtractKeyTopics(h, llm),
                            transcript |-> KeyTopicTranscript(h)]
          /\ calls' = KeyTopicCalls(h)
          /\ failures' = KeyTopicFailures(h, llm)
    /\ pc' = "encode"
    /\ initial_results' = <<>>
    /\ rerank_response' = <<>>
    /\ retrieved_docs' = <<>>
    /\ retrieve_status' = "none"
    /\ query_type' = "none"
    /\ selected_messages' = <<>>
    /\ messages' = <<>>
    /\ result' = NoResult
    /\ UNCHANGED conversation_summary

\* an exception of retrieve_documents leaves generate_response_stream: no try encloses line 231
RetrieveRaises(call, e) ==
    /\ failures' = Append(failures, Failed(call, e))
    /\ retrieve_status' = "raised"
    /\ result' = Raised(e)
    /\ pc' = "done"
    /\ UNCHANGED <<initial_results, retrieved_docs>>

\* line 42: embedding_model.encode(hybrid_query)
EncodeQuery ==
    /\ UNCHANGED similarities
    /\ UNCHANGED <<chunkVars, indexVars, sessVars, chatVars>>
    /\ UNCHANGED <<rerank_response, key_topics>>
    /\ pc = "encode"
    /\ calls' = Append(calls, "encode")
    /\ \/ /\ pc' = "query"
          /\ UNCHANGED <<initial_results, retrieved_docs, retrieve_status, failures,
                         result>>
       \/ \E e \in Errors : RetrieveRaises("encode", e)
    /\ UNCHANGED <<user_message, chat_history, conversation_summary, hybrid_query,
                   query_type, selected_messages, messages>>

\* lines 45-62 and 86: index.query and the collection of the matches
VectorQuery ==
    /\ UNCHANGED similarities
    /\ UNCHANGED <<chunkVars, indexVars, sessVars, chatVars>>
    /\ UNCHANGED <<rerank_response, key_topics>>
    /\ pc = "query"
    /\ calls' = Append(calls, "query")
    /\ \/ \E n \in MatchCounts :
             /\ initial_results' = InitialResults(n)
             /\ IF n = 0
                THEN /\ retrieved_docs' = <<>>
                     /\ retrieve_status' = "returned"
                     /\ pc' = NextStage("retrieve")
                ELSE /\ pc' = "rerank"
                     /\ UNCHANGED <<retrieved_docs, retrieve_status>>
             /\ UNCHANGED <<failures, result>>
       \/ \E e \in Errors : RetrieveRaises("query", e)
    /\ UNCHANGED <<user_message, chat_history, conversation_summary, hybrid_query,
                   query_type, selected_messages, messages>>

\* lines 63-84: the key topics, co.rerank and the sort, or the fallback
Rerank ==
    /\ UNCHANGED similarities
    /\ UNCHANGED <<chunkVars, indexVars, sessVars, chatVars>>
    /\ UNCHANGED key_topics
    /\ pc = "rerank"
    /\ calls' = calls \o KeyTopicCalls(chat_history) \o <<"rerank">>
    /\ \E llm \in LlmOutcomes :
          \/ \E response \in RerankResponses(Len(initial_results)) :
                /\ rerank_response' = response
                /\ retrieved_docs' = Reranked(initial_results, response)
                /\ failures' = failures \o KeyTopicFailures(chat_history, llm)
          \/ /\ rerank_response' = <<>>
             /\ retrieved_docs' = RerankFallback(initial_results)
             /\ failures' = failures \o KeyTopicFailures(chat_history, llm)
                                      \o <<Failed("rerank", "error")>>
    /\ retrieve_status' = "returned"
    /\ pc' = NextStage("retrieve")
    /\ UNCHANGED <<user_message, chat_history, conversation_summary, hybrid_query,
                   initial_results, query_type, selected_messages, messages, result>>

\* lines 232-235 and 326: _prepare_messages_with_memory begins with the label
Classify ==
    /\ UNCHANGED similarities
    /\ UNCHANGED <<chunkVars, indexVars, sessVars, chatVars>>
    /\ UNCHANGED <<rerank_response, key_topics>>
    /\ pc = "classify"
    /\ query_type' = AnalyzeQueryType(user_message, chat_history)
    /\ pc' = NextStage("classify")
    /\ UNCHANGED <<user_message, chat_history, conversation_summary, calls,
                   hybrid_query, initial_results, retrieved_docs, retrieve_status,
                   selected_messages, messages, failures, result>>

\* lines 327-446: the rest of _prepare_messages_with_memory
Compose ==
    /\ UNCHANGED <<chunkVars, indexVars, sessVars, chatVars>>
    /\ UNCHANGED <<rerank_response, key_topics>>
    /\ pc = "compose"
    /\ \E embedOk \in BOOLEAN, sims \in Similarities(chat_history) :
          \E top \in TopIndices(sims) :
             /\ selected_messages' =
                    SelectRelevantMessages(chat_history, embedOk, sims, top)
             /\ similarities' = IF embedOk THEN sims ELSE <<>>
             /\ failures' = failures \o SelectFailures(chat_history, embedOk)
    /\ messages' = PrepareMessages(conversation_summary, query_type,
                                   selected_messages', retrieved_docs, user_message)
    /\ calls' = calls \o SelectCalls(chat_history)
    /\ pc' = NextStage("compose")
    /\ UNCHANGED <<user_message, chat_history, conversation_summary, hybrid_query,
                   initial_results, retrieved_docs, retrieve_status, query_type,
                   result>>

\* lines 237-244 and 250-255: co.chat_stream, or the error generator
ChatStream ==
    /\ UNCHANGED similarities
    /\ UNCHANGED <<chunkVars, indexVars, sessVars, chatVars>>
    /\ UNCHANGED <<rerank_response, key_topics>>
    /\ pc = "chat_stream"
    /\ calls' = Append(calls, "chat_stream")
    /\ \/ /\ pc' = NextStage("chat_stream")
          /\ UNCHANGED <<failures, result>>
       \/ \E e \in Errors :
             /\ failures' = Append(failures, Failed("chat_stream", e))
             /\ result' = Returned(ErrorStream(e), <<>>)
             /\ pc' = "done"
    /\ UNCHANGED <<user_message, chat_history, conversation_summary, hybrid_query,
                   initial_results, retrieved_docs, retrieve_status, query_type,
                   selected_messages, messages>>

\* lines 247-249: _update_conversation_memory, then the return of the stream
UpdateMemory ==
    /\ UNCHANGED similarities
    /\ UNCHANGED <<chunkVars, indexVars, sessVars, chatVars>>
    /\ UNCHANGED <<rerank_response, key_topics>>
    /\ pc = "update_memory"
    /\ \E llm \in LlmOutcomes :
          /\ conversation_summary' =
                 UpdateConversationMemory(conversation_summary, user_message,
                                          chat_history, llm)
          /\ failures' = failures \o UpdateFailures(chat_history, llm)
    /\ calls' = calls \o UpdateCalls(chat_history)
    /\ result' = Returned(ChatStreamEvents, retrieved_docs)
    /\ pc' = NextStage("update_memory")
    /\ UNCHANGED <<user_message, chat_history, hybrid_query, initial_results,
                   retrieved_docs, retrieve_status, query_type, selected_messages,
                   messages>>

\* the caller has the outcome; the instance, with its summary, serves the next call
Return ==
    /\ similarities' = <<>>
    /\ UNCHANGED <<chunkVars, indexVars, sessVars, chatVars>>
    /\ pc = "done"
    /\ pc' = "idle"
    /\ user_message' = NoMessage
    /\ chat_history' = <<>>
    /\ calls' = <<>>
    /\ hybrid_query' = NoHybridQuery
    /\ key_topics' = NoKeyTopics
    /\ initial_results' = <<>>
    /\ rerank_response' = <<>>
    /\ retrieved_docs' = <<>>
    /\ retrieve_status' = "none"
    /\ query_type' = "none"
    /\ selected_messages' = <<>>
    /\ messages' = <<>>
    /\ failures' = <<>>
    /\ result' = NoResult
    /\ UNCHANGED conversation_summary

-----------------------------------------------------------------------------
(* generate_and_store_embeddings (src/embedding.py) and the upload flow of   *)
(* the admin page (src/app.py, lines 537-595).  A chunk is the record        *)
(* [doc, chunk]: the upload it comes from and its position in it.            *)

\* most chunks of one document
MaxChunks == 3
\* largest batch_size of a direct call
MaxBatch == 2

\* the documents indexed, one after the other, into the same index
Docs == <<"D1", "D2">>

\* batch_size=50 of the signature, used by the upload flow
DefaultBatchSize == 50

RECURSIVE Digits(_)
\* str(n) of the f-string, for n >= 0: the decimal digits
Digits(n) == IF n < 10 THEN <<n>> ELSE Digits(n \div 10) \o <<n % 10>>

\* an id that leaves out the batch number
UniqueIdOffsetOnly(batch, i) == <<"chunk_">> \o Digits(i)

\* f"chunk_{batch_num}_{i}"
UniqueId(batch, i) == <<"chunk_">> \o Digits(batch) \o <<"_">> \o Digits(i)

\* math.ceil(total_chunks / batch_size)
TotalBatches(total_chunks, size) == (total_chunks + size - 1) \div size

\* chunks[start_idx:end_idx]
CurrentBatch(chs, batch, size) ==
    SubSeq(chs, batch * size + 1, Min((batch + 1) * size, Len(chs)))

\* the vectors of lines 46-60, without the embedding itself
Vectors(chs, batch, size) ==
    LET current_batch == CurrentBatch(chs, batch, size)
    IN  [i \in 1..Len(current_batch) |->
            [id |-> UniqueId(batch, i - 1), text |-> current_batch[i],
             source |-> "unknown"]]

\* index.upsert(vectors=vectors): a record is stored under its id, in the place
\* of the record that had the id
Upsert(store, vectors) ==
    LET ids == {vectors[i].id : i \in DOMAIN vectors}
        last(id) == CHOOSE i \in DOMAIN vectors :
                       /\ vectors[i].id = id
                       /\ \A j \in DOMAIN vectors : vectors[j].id = id => j <= i
    IN  [id \in DOMAIN store \cup ids |->
            IF id \in ids
            THEN [text |-> vectors[last(id)].text, source |-> vectors[last(id)].source]
            ELSE store[id]]

\* the chunks of the document of the given upload
DocChunks(doc, n) == [i \in 1..n |-> [doc |-> doc, chunk |-> i]]

\* how many chunks a document gives
ChunkCounts == {0, 1, MaxBatch + 1, MaxChunks}

BatchSizes == {1, 2, MaxBatch}

\* how a batch ends: upserted (and reported), an exception of encode, of upsert,
\* or of the progress callback after the upsert
BatchOutcomes(callback) ==
    {"upserted", "encode_failed", "upsert_failed"}
        \cup (IF callback THEN {"callback_failed"} ELSE {})

\* a callback that is handed the counters as they were before lines 66-67
CallbackArgsBeforeUpdate(batch, vectors, before, after) ==
    [current_batch |-> batch + 1,
     total_batches |-> before.total_batches,
     batch_size |-> Len(vectors),
     processed_chunks |-> before.processed_chunks,
     total_chunks |-> before.total_chunks]

\* lines 70-76: the arguments of progress_callback; batch_progress is the
\* dictionary after the update of lines 66-67
CallbackArgs(batch, vectors, before, after) ==
    [current_batch |-> batch + 1,
     total_batches |-> after.total_batches,
     batch_size |-> Len(vectors),
     processed_chunks |-> after.processed_chunks,
     total_chunks |-> after.total_chunks]

\* a loop that stops at the first failed batch
NextBatchBreak(batch, total, outcome) ==
    IF outcome \in {"upserted"} THEN batch + 1 ELSE total

\* the for loop of line 38 with the continue of line 80
NextBatch(batch, total, outcome) == batch + 1

NoUpload == [status |-> "none", blank |-> FALSE, n |-> 0, error |-> "none"]

\* uploads: an empty or whitespace-only file, a file of headings only (no
\* chunk), files with chunks
UploadDocs == {[blank |-> TRUE, n |-> 0]}
                  \cup {[blank |-> FALSE, n |-> k] : k \in ChunkCounts}

\* an upload flow without the check of line 550
UploadErrorNoChunkCheck(doc) ==
    IF doc.blank THEN "The uploaded file is empty." ELSE "none"

\* the ValueErrors of lines 541-542 and 550-551
UploadError(doc) ==
    IF doc.blank THEN "The uploaded file is empty."
    ELSE IF doc.n = 0 THEN "No valid content chunks could be generated."
    ELSE "none"

NoProgress == [total_chunks |-> 0, total_batches |-> 0,
               processed_chunks |-> 0, processed_batches |-> 0]

IndexInit ==
    /\ index_store = <<>>
    /\ index_chunks = <<>>
    /\ batch_size = DefaultBatchSize
    /\ progress_callback = FALSE
    /\ batch_num = 0
    /\ batch_progress = NoProgress
    /\ generated_ids = <<>>
    /\ batch_log = <<>>
    /\ callbacks = <<>>
    /\ written = {}
    /\ upload = NoUpload
    /\ runs = 0

\* the call of generate_and_store_embeddings begins
BeginIndexing(chs, size, callback) ==
    /\ index_chunks' = chs
    /\ batch_size' = size
    /\ progress_callback' = callback
    /\ batch_num' = 0
    /\ batch_progress' = NoProgress
    /\ generated_ids' = <<>>
    /\ batch_log' = <<>>
    /\ callbacks' = <<>>
    /\ pc' = "index_start"

\* app.py lines 537-595 up to the call of line 581, or the except of line 594
Upload ==
    /\ pc = "idle"
    /\ runs < Len(Docs)
    /\ \E doc \in UploadDocs, e \in {"none", "chunk_content raised", "Pinecone raised"} :
          LET error == IF UploadError(doc) # "none" THEN UploadError(doc)
                       ELSE e
          IN  IF error # "none"
              THEN /\ upload' = [status |-> "failed", blank |-> doc.blank,
                                 n |-> doc.n, error |-> error]
                   /\ pc' = "upload_failed"
                   /\ UNCHANGED <<index_chunks, batch_size, progress_callback,
                                  batch_num, batch_progress, generated_ids,
                                  batch_log, callbacks>>
              ELSE /\ upload' = [status |-> "indexing", blank |-> doc.blank,
                                 n |-> doc.n, error |-> "none"]
                   /\ BeginIndexing(DocChunks(Docs[runs + 1], doc.n), DefaultBatchSize, TRUE)
    /\ UNCHANGED <<index_store, written, runs>>
    /\ UNCHANGED <<pipelineData, chunkVars, sessVars, chatVars>>

\* generate_and_store_embeddings called with any chunks and batch size
IndexCall ==
    /\ pc = "idle"
    /\ runs < Len(Docs)
    /\ \E n \in ChunkCounts, size \in BatchSizes, callback \in BOOLEAN :
          BeginIndexing(DocChunks(Docs[runs + 1], n), size, callback)
    /\ UNCHANGED <<index_store, written, upload, runs>>
    /\ UNCHANGED <<pipelineData, chunkVars, sessVars, chatVars>>

\* lines 23-35: the embedding model is loaded, outside any try, and the
\* totals are computed
IndexStart ==
    /\ pc = "index_start"
    /\ \/ /\ batch_progress' =
                 [total_chunks |-> Len(index_chunks),
                  total_batches |-> TotalBatches(Len(index_chunks), batch_size),
                  processed_chunks |-> 0, processed_batches |-> 0]
          /\ pc' = "indexing"
       \/ /\ pc' = "index_raised"
          /\ UNCHANGED batch_progress
    /\ UNCHANGED <<index_store, index_chunks, batch_size, progress_callback,
                   batch_num, generated_ids, batch_log, callbacks, written,
                   upload, runs>>
    /\ UNCHANGED <<pipelineData, chunkVars, sessVars, chatVars>>

\* lines 38-80: one pass of the loop
IndexBatch ==
    /\ pc = "indexing"
    /\ batch_num < batch_progress.total_batches
    /\ LET vectors == Vectors(index_chunks, batch_num, batch_size)
           ids == [i \in 1..Len(vectors) |-> vectors[i].id]
           progress == [batch_progress EXCEPT
                           !.processed_chunks = @ + Len(vectors),
                           !.processed_batches = @ + 1]
       IN  \E outcome \in BatchOutcomes(progress_callback) :
              /\ IF outcome = "encode_failed"
                 THEN \E j \in {1, Len(vectors)} :
                         generated_ids' = generated_ids \o SubSeq(ids, 1, j)
                 ELSE generated_ids' = generated_ids \o ids
              /\ IF outcome \in {"upserted", "callback_failed"}
                 THEN /\ index_store' = Upsert(index_store, vectors)
                      /\ written' = written \cup
                             {[id |-> vectors[i].id, text |-> vectors[i].text] :
                                 i \in DOMAIN vectors}
                      /\ batch_progress' = progress
                      /\ callbacks' =
                             IF progress_callback
                             THEN Append(callbacks,
                                         CallbackArgs(batch_num, vectors,
                                                      batch_progress, progress))
                             ELSE callbacks
                 ELSE UNCHANGED <<index_store, written, batch_progress, callbacks>>
              /\ batch_log' = Append(batch_log, [batch |-> batch_num, outcome |-> outcome])
              /\ batch_num' = NextBatch(batch_num, batch_progress.total_batches, outcome)
    /\ UNCHANGED <<pc, index_chunks, batch_size, progress_callback, upload, runs>>
    /\ UNCHANGED <<pipelineData, chunkVars, sessVars, chatVars>>

\* line 82, and lines 587-592 of app.py for an upload
IndexReturn ==
    /\ pc = "indexing"
    /\ batch_num >= batch_progress.total_batches
    /\ pc' = "indexed"
    /\ upload' = IF upload.status = "indexing"
                 THEN [upload EXCEPT !.status = "complete"] ELSE upload
    /\ UNCHANGED <<index_store, index_chunks, batch_size, progress_callback,
                   batch_num, batch_progress, generated_ids, batch_log, callbacks,
                   written, runs>>
    /\ UNCHANGED <<pipelineData, chunkVars, sessVars, chatVars>>

\* the call is over (for an upload whose indexer raised: the except of line
\* 594 of app.py); the index keeps its records
IndexDone ==
    /\ pc \in {"indexed", "index_raised", "upload_failed"}
    /\ pc' = "idle"
    /\ runs' = IF pc = "upload_failed" THEN runs ELSE runs + 1
    /\ index_chunks' = <<>>
    /\ batch_size' = DefaultBatchSize
    /\ progress_callback' = FALSE
    /\ batch_num' = 0
    /\ batch_progress' = NoProgress
    /\ generated_ids' = <<>>
    /\ batch_log' = <<>>
    /\ callbacks' = <<>>
    /\ upload' = NoUpload
    /\ UNCHANGED <<index_store, written>>
    /\ UNCHANGED <<pipelineData, chunkVars, sessVars, chatVars>>

-----------------------------------------------------------------------------
(* Two sessions, each with its own RAGSystem instance                        *)

Sessions == {1, 2}

\* the histories of the sessions' calls: on each side of the threshold 4 of
\* the summary, and beyond the threshold 8 of its fallback
SessHistories == {HistOf(n) : n \in {3, 4, MaxHist}}

NoArgs == [user_message |-> NoMessage, chat_history |-> <<>>]

\* a summary kept in an attribute of the class, one for all the instances
SummaryCellShared(s) == 1

\* self.conversation_summary: an attribute of the instance of session s
SummaryCell(s) == s

\* the value of self.conversation_summary in session s
SummaryOf(s) == instance_summary[SummaryCell(s)]

SessInit ==
    /\ instance_summary = [c \in Sessions |-> EmptySummary]
    /\ sess_pc = [s \in Sessions |-> "idle"]
    /\ sess_args = [s \in Sessions |-> NoArgs]
    /\ sess_read = [s \in Sessions |-> EmptySummary]
    /\ sess_own = [s \in Sessions |-> EmptySummary]

\* lines 229-235 in session s: retrieval, which may raise, then the prompt,
\* which reads the summary of the instance (lines 426-430)
SessGenerate(s) ==
    /\ sess_pc[s] = "idle"
    /\ \E m \in GenMessages, h \in SessHistories :
          sess_args' = [sess_args EXCEPT ![s] = [user_message |-> m, chat_history |-> h]]
    /\ \/ /\ sess_pc' = [sess_pc EXCEPT ![s] = "chat_stream"]
          /\ sess_read' = [sess_read EXCEPT ![s] = SummaryOf(s)]
       \/ /\ sess_pc' = [sess_pc EXCEPT ![s] = "done"]
          /\ UNCHANGED sess_read
    /\ UNCHANGED <<instance_summary, sess_own>>
    /\ UNCHANGED <<pipelineVars, chunkVars, indexVars, chatVars>>

\* lines 237-244 and 250-255 in session s
SessChatStream(s) ==
    /\ sess_pc[s] = "chat_stream"
    /\ \E next \in {"update_memory", "done"} :
          sess_pc' = [sess_pc EXCEPT ![s] = next]
    /\ UNCHANGED <<instance_summary, sess_args, sess_read, sess_own>>
    /\ UNCHANGED <<pipelineVars, chunkVars, indexVars, chatVars>>

\* line 247 in session s: _update_conversation_memory writes the summary of
\* the instance
SessUpdate(s) ==
    /\ sess_pc[s] = "update_memory"
    /\ \E llm \in LlmOutcomes :
          /\ instance_summary' =
                 [instance_summary EXCEPT ![SummaryCell(s)] =
                     UpdateConversationMemory(SummaryOf(s), sess_args[s].user_message,
                                              sess_args[s].chat_history, llm)]
          /\ sess_own' =
                 [sess_own EXCEPT ![s] =
                     UpdateConversationMemory(sess_own[s], sess_args[s].user_message,
                                              sess_args[s].chat_history, llm)]
    /\ sess_pc' = [sess_pc EXCEPT ![s] = "done"]
    /\ UNCHANGED <<sess_args, sess_read>>
    /\ UNCHANGED <<pipelineVars, chunkVars, indexVars, chatVars>>

\* the call of session s is over
SessReturn(s) ==
    /\ sess_pc[s] = "done"
    /\ sess_pc' = [sess_pc EXCEPT ![s] = "idle"]
    /\ sess_args' = [sess_args EXCEPT ![s] = NoArgs]
    /\ sess_read' = [sess_read EXCEPT ![s] = EmptySummary]
    /\ UNCHANGED <<instance_summary, sess_own>>
    /\ UNCHANGED <<pipelineVars, chunkVars, indexVars, chatVars>>

-----------------------------------------------------------------------------
(* The chat page (src/app.py, display_chat_interface and start_new_chat)     *)
(* with the one RAGSystem of the session.  Retrieval is seen by its outcome: *)
(* the documents it returns, or the exception it lets through.               *)

\* the text of a reply, as a message
ReplyText(s) == Msg({s}, 0)

\* the message of the k-th turn of a conversation
ChatPrompt(k) == Msg({}, k)

\* a row of the messages table: the k-th message of the conversation
ChatTurn(k, isUser, content) ==
    [id |-> MaxChatTurns + 2 - k, isUser |-> isUser, content |-> content]

\* app.py lines 892-897: full_response, the texts of the events that have
\* the type "content-delta"
FullResponse(stream) ==
    LET deltas == SelectSeq(stream, LAMBDA e : e.type = "content-delta")
    IN  IF deltas = <<>> THEN NoMessage
        ELSE Msg({deltas[i].text : i \in 1..Len(deltas)}, 0)

\* lines 590-592: the turns of the transcript, the message last
UpdateTranscript(message, history) ==
    LET recent == LastN(history, 10)
    IN  [i \in 1..Len(recent) |->
            [isUser |-> recent[i].isUser, content |-> recent[i].content]]
        \o <<[isUser |-> TRUE, content |-> message]>>

\* the conversations a summary derives from after the update of lines
\* 579-638: the prompt of the model holds the transcript and, when there is
\* one, the earlier summary
SummarySources(sources, summary, chat, history, llm) ==
    IF Len(history) < MinSummaryHist THEN sources
    ELSE CASE llm = "ok"     -> (IF summary # EmptySummary THEN sources ELSE {})
                                    \cup {chat}
           [] llm = "empty"  -> {}
           [] llm = "notext" -> sources
           [] OTHER          -> IF Len(history) > FallbackSummaryHist
                                THEN {chat} ELSE sources

\* the documents retrieve_documents returns to the chat page
ChatDocs == {<<>>, InitialResults(2)}

ChatInit ==
    /\ conversation = <<>>
    /\ chat_id = 1
    /\ transcript = <<>>
    /\ summary_from = {}

\* app.py lines 866-889: the prompt is stored, the conversation is read back
\* and handed to generate_response_stream, which builds the hybrid query
ChatSubmit ==
    /\ pc = "idle"
    /\ Len(conversation) < MaxChatTurns
    /\ LET prompt == ChatPrompt(Len(conversation) + 1)
           all_messages == Append(conversation,
                                  ChatTurn(Len(conversation) + 1, TRUE, prompt))
       IN  /\ conversation' = all_messages
           /\ user_message' = prompt
           /\ chat_history' = all_messages
           /\ \E llm \in LlmOutcomes :
                 /\ hybrid_query' = CreateHybridQuery(prompt, all_messages, llm)
                 /\ key_topics' = [topics |-> ExtractKeyTopics(all_messages, llm),
                                   transcript |-> KeyTopicTranscript(all_messages)]
                 /\ calls' = KeyTopicCalls(all_messages)
                 /\ failures' = KeyTopicFailures(all_messages, llm)
    /\ pc' = "chat_retrieve"
    /\ UNCHANGED <<conversation_summary, initial_results, rerank_response,
                   retrieved_docs, retrieve_status, query_type, selected_messages,
                   messages, result, similarities>>
    /\ UNCHANGED <<chat_id, transcript, summary_from>>
    /\ UNCHANGED <<chunkVars, indexVars, sessVars>>

\* rag_system.py lines 231-232: retrieve_documents returns, or raises through
\* generate_response_stream into the page
ChatRetrieve ==
    /\ pc = "chat_retrieve"
    /\ \/ \E docs \in ChatDocs :
             /\ retrieved_docs' = docs
             /\ retrieve_status' = "returned"
             /\ pc' = "chat_prepare"
             /\ UNCHANGED <<failures, result>>
       \/ \E e \in Errors :
             /\ failures' = Append(failures, Failed("query", e))
             /\ retrieve_status' = "raised"
             /\ result' = Raised(e)
             /\ pc' = "chat_raised"
             /\ UNCHANGED retrieved_docs
    /\ UNCHANGED <<user_message, chat_history, conversation_summary, calls,
                   hybrid_query, key_topics, initial_results, rerank_response,
                   query_type, selected_messages, messages, similarities>>
    /\ UNCHANGED chatVars
    /\ UNCHANGED <<chunkVars, indexVars, sessVars>>

\* rag_system.py line 235: _prepare_messages_with_memory
ChatPrepare ==
    /\ pc = "chat_prepare"
    /\ query_type' = AnalyzeQueryType(user_message, chat_history)
    /\ \E embedOk \in BOOLEAN, sims \in Similarities(chat_history) :
          \E top \in TopIndices(sims) :
             /\ selected_messages' =
                    SelectRelevantMessages(chat_history, embedOk, sims, top)
             /\ similarities' = IF embedOk THEN sims ELSE <<>>
             /\ failures' = failures \o SelectFailures(chat_history, embedOk)
    /\ messages' = PrepareMessages(conversation_summary, query_type',
                                   selected_messages', retrieved_docs, user_message)
    /\ calls' = calls \o SelectCalls(chat_history)
    /\ pc' = "chat_call"
    /\ UNCHANGED <<user_message, chat_history, conversation_summary, hybrid_query,
                   key_topics, initial_results, rerank_response, retrieved_docs,
                   retrieve_status, result>>
    /\ UNCHANGED chatVars
    /\ UNCHANGED <<chunkVars, indexVars, sessVars>>

\* rag_system.py lines 237-244 and 250-255: co.chat_stream, or the error generator
ChatCall ==
    /\ pc = "chat_call"
    /\ calls' = Append(calls, "chat_stream")
    /\ \/ /\ pc' = "chat_update"
          /\ UNCHANGED <<failures, result>>
       \/ \E e \in Errors :
             /\ failures' = Append(failures, Failed("chat_stream", e))
             /\ result' = Returned(ErrorStream(e), <<>>)
             /\ pc' = "chat_consume"
    /\ UNCHANGED <<user_message, chat_history, conversation_summary, hybrid_query,
                   key_topics, initial_results, rerank_response, retrieved_docs,
                   retrieve_status, query_type, selected_messages, messages,
                   similarities>>
    /\ UNCHANGED chatVars
    /\ UNCHANGED <<chunkVars, indexVars, sessVars>>

\* rag_system.py lines 247-249: the summary update, then the return of the stream
ChatUpdate ==
    /\ pc = "chat_update"
    /\ \E llm \in LlmOutcomes :
          /\ conversation_summary' =
                 UpdateConversationMemory(conversation_summary, user_message,
                                          chat_history, llm)
          /\ summary_from' = SummarySources(summary_from, conversation_summary,
                                            chat_id, chat_history, llm)
          /\ failures' = failures \o UpdateFailures(chat_history, llm)
    /\ transcript' = IF Len(chat_history) < MinSummaryHist THEN <<>>
                     ELSE UpdateTranscript(user_message, chat_history)
    /\ calls' = calls \o UpdateCalls(chat_history)
    /\ result' = Returned(ChatStreamEvents, retrieved_docs)
    /\ pc' = "chat_consume"
    /\ UNCHANGED <<user_message, chat_history, hybrid_query, key_topics,
                   initial_results, rerank_response, retrieved_docs,
                   retrieve_status, query_type, selected_messages, messages,
                   similarities>>
    /\ UNCHANGED <<conversation, chat_id>>
    /\ UNCHANGED <<chunkVars, indexVars, sessVars>>

\* app.py lines 891-915: the stream is read and the reply is stored
ChatConsume ==
    /\ pc = "chat_consume"
    /\ conversation' = Append(conversation,
                              ChatTurn(Len(conversation) + 1, FALSE,
                                       FullResponse(result.stream)))
    /\ pc' = "chat_shown"
    /\ UNCHANGED <<user_message, chat_history, conversation_summary, calls,
                   hybrid_query, key_topics, initial_results, rerank_response,
                   retrieved_docs, retrieve_status, query_type, selected_messages,
                   messages, failures, result, similarities>>
    /\ UNCHANGED <<chat_id, transcript, summary_from>>
    /\ UNCHANGED <<chunkVars, indexVars, sessVars>>

\* the run of the page is over: after the reply, or by the exception of
\* retrieve_documents, which leaves the prompt stored without a reply
ChatRerun ==
    /\ pc \in {"chat_shown", "chat_raised"}
    /\ pc' = "idle"
    /\ user_message' = NoMessage
    /\ chat_history' = <<>>
    /\ calls' = <<>>
    /\ hybrid_query' = NoHybridQuery
    /\ key_topics' = NoKeyTopics
    /\ retrieved_docs' = <<>>
    /\ retrieve_status' = "none"
    /\ query_type' = "none"
    /\ selected_messages' = <<>>
    /\ messages' = <<>>
    /\ failures' = <<>>
    /\ result' = NoResult
    /\ similarities' = <<>>
    /\ transcript' = <<>>
    /\ UNCHANGED <<conversation_summary, initial_results, rerank_response>>
    /\ UNCHANGED <<conversation, chat_id, summary_from>>
    /\ UNCHANGED <<chunkVars, indexVars, sessVars>>

\* app.py lines 253-272: a new conversation; the RAGSystem of the session stays
StartNewChat ==
    /\ pc = "idle"
    /\ chat_id < MaxChats
    /\ conversation # <<>>
    /\ chat_id' = chat_id + 1
    /\ conversation' = <<>>
    /\ UNCHANGED <<transcript, summary_from>>
    /\ UNCHANGED pipelineVars
    /\ UNCHANGED <<chunkVars, indexVars, sessVars>>

NextChat ==
    \/ ChatSubmit
    \/ ChatRetrieve
    \/ ChatPrepare
    \/ ChatCall
    \/ ChatUpdate
    \/ ChatConsume
    \/ ChatRerun
    \/ StartNewChat

vars == <<pipelineVars, chunkVars, indexVars, sessVars, chatVars>>

Init == PipelineInit /\ ChunkInit /\ IndexInit /\ SessInit /\ ChatInit

Next ==
    \/ GenStart
    \/ EncodeQuery
    \/ VectorQuery
    \/ Rerank
    \/ Classify
    \/ Compose
    \/ ChatStream
    \/ UpdateMemory
    \/ Return

Spec == Init /\ [][Next]_vars

-----------------------------------------------------------------------------
(* _analyze_query_type and _select_relevant_messages called on their own *)

\* lines 257-313, for every message of the vocabulary
AnalyzeQuery ==
    /\ UNCHANGED similarities
    /\ UNCHANGED <<chunkVars, indexVars, sessVars, chatVars>>
    /\ UNCHANGED <<rerank_response, key_topics>>
    /\ pc = "idle"
    /\ \E m \in AllMessages, h \in Histories(MaxHist) :
          /\ user_message' = m
          /\ chat_history' = h
          /\ query_type' = AnalyzeQueryType(m, h)
    /\ pc' = "classified"
    /\ UNCHANGED <<conversation_summary, calls, hybrid_query, initial_results,
                   retrieved_docs, retrieve_status, selected_messages, messages,
                   failures, result>>

\* lines 525-577, for every history up to MaxSelHist turns
SelectMessages ==
    /\ UNCHANGED <<chunkVars, indexVars, sessVars, chatVars>>
    /\ UNCHANGED <<rerank_response, key_topics>>
    /\ pc = "idle"
    /\ \E h \in Histories(MaxSelHist), embedOk \in BOOLEAN :
          \E sims \in SimilaritiesIn(h, SelectSimValues(h)) :
             \E top \in TopIndices(sims) :
                /\ chat_history' = h
                /\ selected_messages' = SelectRelevantMessages(h, embedOk, sims, top)
                /\ similarities' = IF embedOk THEN sims ELSE <<>>
                /\ calls' = SelectCalls(h)
                /\ failures' = SelectFailures(h, embedOk)
    /\ pc' = "selected"
    /\ UNCHANGED <<user_message, conversation_summary, hybrid_query, initial_results,
                   retrieved_docs, retrieve_status, query_type, messages, result>>

\* lines 39-61 of retrieve_documents called on its own, with matches
RetrieveCandidates ==
    /\ UNCHANGED similarities
    /\ UNCHANGED <<chunkVars, indexVars, sessVars, chatVars>>
    /\ pc = "idle"
    /\ \E m \in GenMessages, n \in 1..MaxMatches :
          /\ user_message' = m
          /\ hybrid_query' = CreateHybridQuery(m, <<>>, "ok")
          /\ key_topics' = [topics |-> ExtractKeyTopics(<<>>, "ok"),
                            transcript |-> KeyTopicTranscript(<<>>)]
          /\ initial_results' = InitialResults(n)
    /\ calls' = <<"encode", "query">>
    /\ pc' = "rerank_only"
    /\ UNCHANGED <<chat_history, conversation_summary, rerank_response,
                   retrieved_docs, retrieve_status, query_type, selected_messages,
                   messages, failures, result>>

\* lines 63-84 for every response of the reranker
RerankAnyOrder ==
    /\ UNCHANGED similarities
    /\ UNCHANGED <<chunkVars, indexVars, sessVars, chatVars>>
    /\ UNCHANGED key_topics
    /\ pc = "rerank_only"
    /\ calls' = Append(calls, "rerank")
    /\ \/ \E response \in RerankResponsesAnyOrder(Len(initial_results)) :
             /\ rerank_response' = response
             /\ retrieved_docs' = Reranked(initial_results, response)
             /\ UNCHANGED failures
       \/ /\ rerank_response' = <<>>
          /\ retrieved_docs' = RerankFallback(initial_results)
          /\ failures' = Append(failures, Failed("rerank", "error"))
    /\ retrieve_status' = "returned"
    /\ pc' = "retrieved"
    /\ UNCHANGED <<user_message, chat_history, conversation_summary, hybrid_query,
                   initial_results, query_type, selected_messages, messages, result>>

\* lines 156-192 called on their own, for histories of every authorship
CombineQuery ==
    /\ UNCHANGED similarities
    /\ UNCHANGED <<chunkVars, indexVars, sessVars, chatVars>>
    /\ pc = "idle"
    /\ \E m \in GenMessages, h \in HistoriesAnyAuthor(MaxFlagHist, MaxTopicHist),
          llm \in LlmOutcomes :
          /\ user_message' = m
          /\ chat_history' = h
          /\ hybrid_query' = CreateHybridQuery(m, h, llm)
          /\ key_topics' = [topics |-> ExtractKeyTopics(h, llm),
                            transcript |-> KeyTopicTranscript(h)]
          /\ calls' = KeyTopicCalls(h)
          /\ failures' = KeyTopicFailures(h, llm)
    /\ pc' = "combined"
    /\ UNCHANGED <<conversation_summary, initial_results, rerank_response,
                   retrieved_docs, retrieve_status, query_type, selected_messages,
                   messages, result>>

\* the histories handed to _update_conversation_memory on its own: the
\* alternating ones, and those whose first k turns are the user's
UpdHistories ==
    {HistOf(n) : n \in 0..MaxUpdHist}
        \cup {HistFrom([i \in 1..n |-> i <= k]) : n \in {MaxUpdHist - 2, MaxUpdHist - 1},
                                                  k \in 0..MaxUpdHist - 1}

\* lines 579-638 called on their own, whatever the summary held before
UpdateOnly ==
    /\ UNCHANGED similarities
    /\ UNCHANGED <<chunkVars, indexVars, sessVars, chatVars>>
    /\ pc = "idle"
    /\ \E m \in GenMessages, h \in UpdHistories, llm \in LlmOutcomes :
          /\ user_message' = m
          /\ chat_history' = h
          /\ conversation_summary' =
                 UpdateConversationMemory(conversation_summary, m, h, llm)
          /\ calls' = UpdateCalls(h)
          /\ failures' = UpdateFailures(h, llm)
    /\ pc' = "updated"
    /\ UNCHANGED <<hybrid_query, key_topics, initial_results, rerank_response,
                   retrieved_docs, retrieve_status, query_type, selected_messages,
                   messages, result>>

\* the documents handed to the prompt when it is composed on its own: up to
\* MaxDocs chunks, each of any shape
DocLists ==
    UNION {{[i \in 1..n |-> [text |-> ChunkText(i, shapes[i]),
                             rerank_score |-> NoScore]] :
               shapes \in [1..n -> ChunkShapes]} : n \in 0..MaxDocs}

\* the messages of such a call: one for each label
PrepareMessagesIn ==
    GenMessages \cup {Msg({w}, 0) : w \in {"why", "comparison", "analysis", "what is",
                                         "company"}}
                \cup {Msg({"market", "overview"}, 0)}

\* lines 231-235 and 315-446 with the documents given: the context and the prompt
PrepareOnly ==
    /\ UNCHANGED <<chunkVars, indexVars, sessVars, chatVars>>
    /\ pc = "idle"
    /\ \E m \in PrepareMessagesIn, h \in {HistOf(0), HistOf(3)}, docs \in DocLists :
          /\ user_message' = m
          /\ chat_history' = h
          /\ retrieved_docs' = docs
          /\ query_type' = AnalyzeQueryType(m, h)
          /\ selected_messages' = SelectRelevantMessages(h, TRUE, <<>>, {})
          /\ messages' = PrepareMessages(conversation_summary, query_type',
                                         selected_messages', docs, m)
    /\ retrieve_status' = "returned"
    /\ pc' = "prepared"
    /\ UNCHANGED <<conversation_summary, calls, hybrid_query, key_topics,
                   initial_results, rerank_response, failures, result, similarities>>

\* the value is handed back
Done ==
    /\ similarities' = <<>>
    /\ UNCHANGED <<chunkVars, indexVars, sessVars, chatVars>>
    /\ pc \in {"classified", "selected", "retrieved", "combined", "updated",
              "prepared"}
    /\ pc' = "idle"
    /\ user_message' = NoMessage
    /\ chat_history' = <<>>
    /\ calls' = <<>>
    /\ hybrid_query' = NoHybridQuery
    /\ key_topics' = NoKeyTopics
    /\ initial_results' = <<>>
    /\ rerank_response' = <<>>
    /\ retrieved_docs' = <<>>
    /\ retrieve_status' = "none"
    /\ query_type' = "none"
    /\ selected_messages' = <<>>
    /\ failures' = <<>>
    /\ messages' = <<>>
    /\ UNCHANGED <<conversation_summary, result>>

NextClassify == AnalyzeQuery \/ Done

SpecClassify == Init /\ [][NextClassify]_vars

NextSelect == SelectMessages \/ Done

SpecSelect == Init /\ [][NextSelect]_vars

NextCombine == CombineQuery \/ Done

SpecCombine == Init /\ [][NextCombine]_vars

SpecChat == Init /\ [][NextChat]_vars

NextParse == ParseOnly \/ ParseDone

SpecParse == Init /\ [][NextParse]_vars

NextUpdate == UpdateOnly \/ Done

SpecUpdate == Init /\ [][NextUpdate]_vars

NextPrepare == PrepareOnly \/ Done

SpecPrepare == Init /\ [][NextPrepare]_vars

NextRetrieve == RetrieveCandidates \/ RerankAnyOrder \/ Done

SpecRetrieve == Init /\ [][NextRetrieve]_vars

NextChunk ==
    \/ ChunkStart
    \/ BlankBlock
    \/ WholeBlock
    \/ SentenceUnit
    \/ TokenSlice
    \/ SliceStepZero
    \/ SliceStepNegative
    \/ FinishSection
    \/ ChunkDone

SpecChunk == Init /\ [][NextChunk]_vars

NextIndex ==
    \/ Upload
    \/ IndexCall
    \/ IndexStart
    \/ IndexBatch
    \/ IndexReturn
    \/ IndexDone

SpecIndex == Init /\ [][NextIndex]_vars

\* the calls of the two sessions, interleaved in every way
NextSessions ==
    \E s \in Sessions :
        \/ SessGenerate(s)
        \/ SessChatStream(s)
        \/ SessUpdate(s)
        \/ SessReturn(s)

SpecSessions == Init /\ [][NextSessions]_vars

\* the loop runs as long as a pass is left, and the call returns
SpecIndexLive == Init /\ [][NextIndex]_vars /\ WF_vars(NextIndex)

-----------------------------------------------------------------------------
(* Properties of generate_response_stream and retrieve_documents *)

HasFailed(call) == \E i \in 1..Len(failures) : failures[i].call = call

\* C1: generate_response_stream never raises: whatever external call fails, the
\* call ends by returning a pair (stream, retrieved_docs).  The code does not
\* keep it: an exception of the query embedding or of the vector-store query
\* leaves retrieve_documents and generate_response_stream.
GenerateNeverRaises == pc = "done" => result.status = "returned"

\* C2: when co.chat_stream fails, the returned stream yields exactly one element,
\* the fixed error string, whatever the exception, and the document list is
\* empty whatever retrieve_documents had found.
StreamFailureYieldsFixedError ==
    (pc = "done" /\ HasFailed("chat_stream")) =>
        /\ result.status = "returned"
        /\ Len(result.stream) = 1
        /\ result.stream[1].text = "Error generating response. Please try again."
        /\ result.docs = <<>>

StreamFailureWitness ==
    /\ pc = "done"
    /\ HasFailed("chat_stream")
    /\ retrieved_docs # <<>>
    /\ result.docs = <<>>

\* C3: retrieve_documents never returns more than 5 documents, whatever the
\* history, the number of matches and the outcome of the reranker.
RetrieveAtMostFive == retrieve_status = "returned" => Len(retrieved_docs) <= 5

RetrieveAtMostFiveWitness ==
    /\ retrieve_status = "returned"
    /\ Len(initial_results) > 5
    /\ ~HasFailed("rerank")
    /\ Len(retrieved_docs) = 5

\* C4: when the query embedding or the vector-store query fails,
\* retrieve_documents returns an empty list instead of raising.  The code does
\* not keep it: neither call is inside a try.
RetrieveFailureReturnsEmpty ==
    (HasFailed("encode") \/ HasFailed("query")) =>
        /\ retrieve_status = "returned"
        /\ retrieved_docs = <<>>

\* C5: when the reranker raises, retrieve_documents returns exactly the first
\* min(5, n) of the n candidates of the vector search, in the order of the
\* vector store, and does not raise.
RerankFailureFallsBack ==
    (pc = "compose" /\ HasFailed("rerank")) =>
        /\ retrieve_status = "returned"
        /\ Len(retrieved_docs) = Min(5, Len(initial_results))
        /\ \A i \in 1..Len(retrieved_docs) : retrieved_docs[i] = initial_results[i]

RerankFailureWitness ==
    /\ pc = "compose"
    /\ HasFailed("rerank")
    /\ Len(initial_results) > 5
    /\ Len(retrieved_docs) = 5

\* C8: _update_conversation_memory with fewer than 4 turns of history leaves
\* conversation_summary as it was and makes no language-model call.
ShortHistoryLeavesSummary ==
    [][(pc = "update_memory" /\ Len(chat_history) < 4) =>
          (conversation_summary' = conversation_summary /\ calls' = calls)]_vars

ShortHistoryWitness ==
    /\ pc = "done"
    /\ result.stream = ChatStreamEvents
    /\ Len(chat_history) = 3
    /\ conversation_summary # EmptySummary

-----------------------------------------------------------------------------
(* Properties of _analyze_query_type *)

RuleOrder == <<"follow_up", "comparative", "analytical", "factual",
               "market_overview", "company_profile">>

RuleHolds(label, message, history) ==
    CASE label = "follow_up"       -> FollowUpRule(message, history)
      [] label = "comparative"     -> ComparativeRule(message)
      [] label = "analytical"      -> AnalyticalRule(message)
      [] label = "factual"         -> FactualRule(message)
      [] label = "market_overview" -> MarketRule(message)
      [] label = "company_profile" -> CompanyRule(message)

\* C6: the label is that of the first rule that holds, in the order follow_up,
\* comparative, analytical, factual, market_overview, company_profile, and is
\* general when none holds; with an empty history it is never follow_up.
ClassifyFirstMatch ==
    pc = "classified" =>
        LET holding == {i \in 1..Len(RuleOrder) :
                           RuleHolds(RuleOrder[i], user_message, chat_history)}
        IN  /\ holding = {} => query_type = "general"
            /\ \A i \in holding :
                  (\A j \in holding : i <= j) => query_type = RuleOrder[i]
            /\ chat_history = <<>> => query_type # "follow_up"

ClassifyFirstMatchWitness ==
    /\ pc = "classified"
    /\ chat_history = <<>>
    /\ has_pronouns(user_message)
    /\ ComparativeRule(user_message)
    /\ FactualRule(user_message)
    /\ CompanyRule(user_message)
    /\ query_type = "comparative"

-----------------------------------------------------------------------------
(* Properties of _select_relevant_messages *)

\* the position in the history of one of its turns
PositionOf(history, turn) == CHOOSE i \in 1..Len(history) : history[i] = turn

\* C7: for a history of N > 6 turns the selection holds all of the last 6 turns
\* and at most 4 of the N - 6 earlier ones, in the order of their positions in
\* the history, whether the embedding succeeded or failed.
SelectKeepsRecentInOrder ==
    (pc = "selected" /\ Len(chat_history) > 6) =>
        LET N == Len(chat_history)
            sel == selected_messages
        IN  /\ \A j \in 1..Len(sel) : sel[j] \in Range(chat_history)
            /\ \A i \in N - 5..N : \E j \in 1..Len(sel) : sel[j] = chat_history[i]
            /\ Cardinality({j \in 1..Len(sel) :
                              PositionOf(chat_history, sel[j]) <= N - 6}) <= 4
            /\ Len(sel) <= 10
            /\ \A j, k \in 1..Len(sel) :
                  j < k => PositionOf(chat_history, sel[j])
                              <= PositionOf(chat_history, sel[k])

SelectKeepsRecentWitness ==
    /\ pc = "selected"
    /\ Len(chat_history) > 10
    /\ ~HasFailed("encode_history")
    /\ Len(selected_messages) = 10

SelectFallbackWitness ==
    /\ pc = "selected"
    /\ HasFailed("encode_history")
    /\ Len(selected_messages) = 8

-----------------------------------------------------------------------------
(* Properties of chunk_content *)

RECURSIVE UnitTokens(_)
\* the tokens accounted for the units of a chunk
UnitTokens(units) ==
    IF units = <<>> THEN 0 ELSE units[1].tokens + UnitTokens(Tail(units))

\* C9 as claimed: with a budget larger than the prefix, every emitted chunk has
\* prefix tokens + tokens of its units <= budget, on the whole-block, the
\* sentence and the token-slice path alike.
ChunkWithinBudget ==
    max_tokens > prefix_tokens =>
        \A c \in Range(chunks) : prefix_tokens + UnitTokens(c.units) <= max_tokens

\* C9 as amended: a whole block or a sentence taken as a unit never has more
\* than budget - prefix tokens, and every emitted chunk whose units all have at
\* most budget - prefix tokens has prefix tokens + tokens of its units <= budget;
\* only a token slice whose stripped text counts more tokens than the slice can
\* take a chunk over the budget.
ChunkWithinBudgetUnlessSliceGrows ==
    max_tokens > prefix_tokens =>
        \A c \in Range(chunks) :
            /\ \A i \in 1..Len(c.units) :
                  c.units[i].slice = 0 =>
                      c.units[i].tokens <= max_tokens - prefix_tokens
            /\ (\A i \in 1..Len(c.units) :
                   c.units[i].tokens <= max_tokens - prefix_tokens)
                  => prefix_tokens + UnitTokens(c.units) <= max_tokens

ChunkWithinBudgetWitness ==
    /\ pc = "chunked"
    /\ prefix_tokens > 0
    /\ max_tokens > prefix_tokens
    /\ Len(chunks) >= 3
    /\ \A c \in Range(chunks) : prefix_tokens + UnitTokens(c.units) <= max_tokens
    /\ \E c \in Range(chunks) : Len(c.units) >= 2
    /\ \E c \in Range(chunks) : \E i \in 1..Len(c.units) : c.units[i].slice > 0
    /\ \E c \in Range(chunks) :
          \E i \in 1..Len(c.units) : c.units[i].slice = 0 /\ c.units[i].sub > 0
    /\ \E c \in Range(chunks) : \E i \in 1..Len(c.units) : c.units[i].sub = 0

RECURSIVE Carried(_)
\* the units of the chunks, chunk by chunk, without their token counts
Carried(cs) ==
    IF cs = <<>> THEN <<>>
    ELSE [i \in 1..Len(cs[1].units) |->
            <<cs[1].units[i].blk, cs[1].units[i].sub, cs[1].units[i].slice>>]
         \o Carried(Tail(cs))

\* the units a sentence is cut into: itself if it fits, else its token slices
\* (at least one, whatever the room behind the prefix)
SentenceUnits(b, s, n, room) ==
    IF n <= room THEN <<<<b, s, 0>>>>
    ELSE [k \in 1..(IF room > 0 THEN NumSlices(n, room) ELSE 1) |-> <<b, s, k>>]

RECURSIVE BlockUnits(_, _, _, _)
\* the units of the sentences s.. of block b
BlockUnits(b, s, block, room) ==
    IF s > Len(block) THEN <<>>
    ELSE SentenceUnits(b, s, block[s], room) \o BlockUnits(b, s + 1, block, room)

RECURSIVE SectionUnits(_, _, _)
\* the non-empty units of the blocks b.. of a section, in their order
SectionUnits(b, sec, room) ==
    IF b > Len(sec) THEN <<>>
    ELSE (IF sec[b] = <<>> THEN <<>>
          ELSE IF BlockTokens(sec[b]) <= room THEN <<<<b, 0, 0>>>>
          ELSE BlockUnits(b, 1, sec[b], room))
         \o SectionUnits(b + 1, sec, room)

\* C10: the units carried by the chunks of a section, read chunk by chunk, are
\* exactly the non-empty units of the section in their order: none is dropped,
\* duplicated or reordered, and the last accumulation is emitted.  The code
\* does not keep it for a section whose heading prefix has as many tokens as
\* the budget or more: chunk_content raises or drops the content.
ChunksCarryEveryUnit ==
    /\ pc # "chunk_raised"
    /\ pc = "chunked" =>
          Carried(chunks) = SectionUnits(1, blocks, max_tokens - prefix_tokens)

\* the same for a heading prefix shorter than the budget, where the code keeps it
ChunksCarryEveryUnitWithRoom ==
    (pc = "chunked" /\ max_tokens > prefix_tokens) =>
        Carried(chunks) = SectionUnits(1, blocks, max_tokens - prefix_tokens)

-----------------------------------------------------------------------------
(* Properties of generate_and_store_embeddings and of the upload flow *)

\* C11: within one call of generate_and_store_embeddings, for every number of
\* chunks and every batch size >= 1, the ids generated for the chunks of all
\* batches are pairwise distinct.
IdsPairwiseDistinct ==
    \A i, j \in 1..Len(generated_ids) :
        i # j => generated_ids[i] # generated_ids[j]

IdsPairwiseDistinctWitness ==
    /\ pc = "indexed"
    /\ batch_size >= 2
    /\ Len(batch_log) >= 2
    /\ Len(generated_ids) = Len(index_chunks)
    /\ Len(generated_ids) > batch_size

\* C12: a record stored by one call is never changed or replaced by a later
\* call against the same index: every record an upsert has stored is still in
\* the index with its text.  The code does not keep it: the ids restart at
\* chunk_0_0 in every call, and the upsert of a later document replaces the
\* records of an earlier one.
RecordsNeverReplaced ==
    \A r \in written :
        /\ r.id \in DOMAIN index_store
        /\ index_store[r.id].text = r.text

\* the batches gone through are 0, 1, ... in this order, each once, and the
\* records of those that did not fail are in the index
BatchLogInOrder ==
    /\ pc \in {"indexing", "indexed"} =>
          /\ Len(batch_log) = batch_num
          /\ batch_num <= batch_progress.total_batches
          /\ \A k \in 1..Len(batch_log) :
                /\ batch_log[k].batch = k - 1
                /\ batch_log[k].outcome \in {"upserted", "callback_failed"} =>
                      LET vectors == Vectors(index_chunks, k - 1, batch_size)
                      IN  \A i \in DOMAIN vectors :
                             /\ vectors[i].id \in DOMAIN index_store
                             /\ index_store[vectors[i].id].text = vectors[i].text
    /\ pc = "indexed" =>
          /\ Len(batch_log) = TotalBatches(Len(index_chunks), batch_size)
          /\ batch_progress.total_chunks = Len(index_chunks)
          /\ batch_progress.total_batches = Len(batch_log)
    /\ pc = "index_raised" => batch_log = <<>>

\* C13: a failure while embedding or upserting batch k skips only batch k:
\* every batch 0..total_batches-1 is gone through exactly once, in increasing
\* order, whatever the outcome of the earlier ones, every batch that does not
\* fail is upserted, and once the loop has begun the call ends by returning
\* batch_progress.
BatchFailureSkipsOnlyThatBatch ==
    /\ []BatchLogInOrder
    /\ (pc = "indexing") ~> (pc = "indexed")

BatchFailureWitness ==
    /\ pc = "indexed"
    /\ \E k \in 1..Len(batch_log) - 2 :
          /\ batch_log[k].outcome = "encode_failed"
          /\ batch_log[k + 1].outcome = "upsert_failed"
          /\ batch_log[k + 2].outcome = "upserted"

\* C17: when the uploaded document is empty or whitespace only, or chunking
\* yields zero chunks, the upload is rejected with an error, and no embedding
\* or upsert call is made for it: generate_and_store_embeddings is not called.
EmptyUploadRejected ==
    (upload.status # "none" /\ (upload.blank \/ upload.n = 0)) =>
        /\ upload.status = "failed"
        /\ upload.error \in {"The uploaded file is empty.",
                             "No valid content chunks could be generated."}
        /\ pc = "upload_failed"
        /\ generated_ids = <<>>
        /\ batch_log = <<>>
        /\ callbacks = <<>>

EmptyUploadRejectedWitness ==
    /\ pc = "upload_failed"
    /\ ~upload.blank
    /\ upload.n = 0
    /\ upload.error = "No valid content chunks could be generated."
    /\ DOMAIN index_store # {}

-----------------------------------------------------------------------------
(* Properties of two sessions with an instance each *)

\* what the sessions' summaries are to be: that of their own calls
SummariesAreOwn ==
    \A s \in Sessions :
        /\ SummaryOf(s) = sess_own[s]
        /\ sess_pc[s] \in {"chat_stream", "update_memory"} => sess_read[s] = sess_own[s]

\* C14: two sessions, each with its own RAGSystem instance, share no mutable
\* state: under every interleaving of their calls, the summary of a session is
\* the one its own calls account for, the summary its prompt reads is that
\* one, and no step of the other session writes it.
SessionsShareNoState ==
    /\ SummariesAreOwn
    /\ [][/\ SummariesAreOwn'
          /\ \A s \in Sessions :
                sess_pc'[s] = sess_pc[s] => SummaryOf(s)' = SummaryOf(s)]_vars

SessionsShareNoStateWitness ==
    /\ sess_pc[1] = "update_memory"
    /\ sess_pc[2] = "chat_stream"
    /\ SummaryOf(1).kind = "llm"
    /\ SummaryOf(2).kind = "topics"
    /\ sess_read[2] = SummaryOf(2)

-----------------------------------------------------------------------------
(* Properties of the order of the stages of generate_response_stream *)

\* the positions of the calls of the given names in the log of the calls
CallPositions(names) == {i \in 1..Len(calls) : calls[i] \in names}

\* the steps from stage to stage of one call
StageSteps ==
    {<<"idle", "encode">>, <<"encode", "query">>, <<"encode", "done">>,
     <<"query", "rerank">>, <<"query", "classify">>, <<"query", "done">>,
     <<"rerank", "classify">>, <<"classify", "compose">>,
     <<"compose", "chat_stream">>, <<"chat_stream", "update_memory">>,
     <<"chat_stream", "done">>, <<"update_memory", "done">>, <<"done", "idle">>}

\* what each stage finds done and not yet done
StagesFindTheirInputs ==
    /\ pc \in {"encode", "query", "rerank"} =>
          retrieve_status = "none" /\ query_type = "none" /\ messages = <<>>
    /\ pc = "classify" =>
          retrieve_status = "returned" /\ query_type = "none" /\ messages = <<>>
    /\ pc = "compose" =>
          /\ retrieve_status = "returned"
          /\ query_type # "none"
          /\ messages = <<>>
          /\ CallPositions({"encode_history", "chat_stream", "chat"}) = {}
    /\ pc = "chat_stream" =>
          /\ retrieve_status = "returned"
          /\ query_type # "none"
          /\ messages # <<>>
          /\ CallPositions({"chat_stream", "chat"}) = {}
    /\ pc = "update_memory" =>
          /\ messages # <<>>
          /\ CallPositions({"chat_stream"}) # {}
          /\ CallPositions({"chat"}) = {}
    /\ \A i \in CallPositions({"summarize", "encode", "query", "rerank"}),
          j \in CallPositions({"encode_history", "chat_stream", "chat"}) : i < j
    /\ \A i \in CallPositions({"encode_history"}),
          j \in CallPositions({"chat_stream", "chat"}) : i < j
    /\ \A i \in CallPositions({"chat_stream"}), j \in CallPositions({"chat"}) : i < j
    /\ pc = "done" =>
          \/ /\ result = Returned(ChatStreamEvents, retrieved_docs)
             /\ ~HasFailed("chat_stream")
             /\ CallPositions({"chat_stream"}) # {}
          \/ /\ result.stream # ChatStreamEvents
             /\ HasFailed("chat_stream") \/ HasFailed("encode") \/ HasFailed("query")

\* C15: within one call of generate_response_stream the stages run strictly
\* in the order retrieving, classifying, composing, streaming, and the call
\* ends complete or errored: retrieval has returned before the label is
\* computed and the prompt composed, the whole message sequence is composed
\* before co.chat_stream is called, and the summary update begins only after
\* that call.
StagesRunInOrder ==
    /\ StagesFindTheirInputs
    /\ [][/\ StagesFindTheirInputs'
          /\ pc' # pc => <<pc, pc'>> \in StageSteps]_vars

StagesRunInOrderWitness ==
    /\ pc = "done"
    /\ result = Returned(ChatStreamEvents, retrieved_docs)
    /\ retrieved_docs # <<>>
    /\ calls = <<"summarize", "encode", "query", "summarize", "rerank",
                 "encode_history", "chat_stream", "chat">>

\* the summary a composed prompt carries
MemoryIn(msgs) ==
    LET memory == SelectSeq(msgs, LAMBDA m : m.kind = "memory")
    IN  IF memory = <<>> THEN EmptySummary ELSE memory[1].body[1]

\* C16: the summary starts empty; every call of generate_response_stream
\* that produces a response with a history of at least 4 turns performs
\* exactly one summary update, the last thing before it returns, and no
\* other step touches the summary; the summary in the prompt of the call is
\* the value from before this update.
SummaryUpdatedOncePerResponse ==
    /\ conversation_summary = EmptySummary
    /\ [][/\ (pc' = "done" /\ result'.stream = ChatStreamEvents
                           /\ Len(chat_history') >= 4)
               => /\ Cardinality(CallPositions({"chat"})') = 1
                  /\ calls'[Len(calls')] = "chat"
          /\ pc = "update_memory" => MemoryIn(messages) = conversation_summary
          /\ pc # "update_memory" => conversation_summary' = conversation_summary]_vars

SummaryUpdatedOnceWitness ==
    /\ pc = "done"
    /\ result.stream = ChatStreamEvents
    /\ Len(chat_history) >= 4
    /\ MemoryIn(messages) # EmptySummary
    /\ MemoryIn(messages) # conversation_summary

-----------------------------------------------------------------------------
(* Properties of the reranking of retrieve_documents *)

\* C18: when reranking succeeds, the list retrieve_documents returns is in
\* non-increasing order of rerank_score, every document of it is one of the
\* candidates of the vector search with the score the reranker gave it, and
\* it consists of the min(5, k) highest-scored of the k results of the
\* reranker.
RerankSuccessSortsTopFive ==
    (retrieve_status = "returned" /\ initial_results # <<>> /\ ~HasFailed("rerank")) =>
        LET docs == retrieved_docs
            k == Len(rerank_response)
            Result(j) == [initial_results[rerank_response[j].index] EXCEPT
                             !.rerank_score = rerank_response[j].relevance_score]
        IN  /\ Len(docs) = Min(5, k)
            /\ \A i, j \in 1..Len(docs) :
                  i < j => docs[i].rerank_score >= docs[j].rerank_score
            /\ \A i \in 1..Len(docs) : \E j \in 1..k : docs[i] = Result(j)
            /\ \A i, j \in 1..Len(docs) : i # j => docs[i].text # docs[j].text
            /\ \A j \in 1..k :
                  \/ \E i \in 1..Len(docs) : docs[i] = Result(j)
                  \/ \A i \in 1..Len(docs) :
                        docs[i].rerank_score >= rerank_response[j].relevance_score

RerankSuccessWitness ==
    /\ pc = "retrieved"
    /\ ~HasFailed("rerank")
    /\ Len(rerank_response) > 5
    /\ rerank_response[1].index # 1
    /\ rerank_response[1].relevance_score < rerank_response[2].relevance_score
    /\ Len(retrieved_docs) = 5
    /\ retrieved_docs[1].text # initial_results[rerank_response[1].index].text

-----------------------------------------------------------------------------
(* Properties of _create_hybrid_query and _extract_key_topics *)

\* the positions of the last 3 user turns of a history
LastUserTurns(history) ==
    LET users == {i \in 1..Len(history) : history[i].isUser}
    IN  {i \in users : Cardinality({j \in users : j > i}) < 3}

\* the texts of the last 3 user turns, oldest first
LastUserTexts(history) ==
    LET order == SeqOfSet(LastUserTurns(history))
    IN  [k \in 1..Len(order) |-> history[order[k]].content]

\* the concatenation of the last 3 user turns as key topics
LastUserTopics(history) ==
    IF LastUserTurns(history) = {} THEN NoTopics
    ELSE [kind |-> "recent", queries |-> LastUserTexts(history)]

\* C19: the hybrid query is the raw query when the history is empty;
\* otherwise it is built from the raw query and the last min(3, u) user turns
\* of the history (u the number of user turns), in chronological order and
\* without any assistant turn, and the key topics are appended only when
\* they are not empty.
HybridQueryFromRecentUserTurns ==
    pc = "combined" =>
        /\ hybrid_query.query = user_message
        /\ chat_history = <<>> =>
              hybrid_query.recent = <<>> /\ hybrid_query.topics = NoTopics
        /\ Len(hybrid_query.recent) =
              Min(3, Cardinality({i \in 1..Len(chat_history) : chat_history[i].isUser}))
        /\ hybrid_query.recent = LastUserTexts(chat_history)
        /\ hybrid_query.topics \in {NoTopics, key_topics.topics}
        /\ hybrid_query.topics # NoTopics =>
              key_topics.topics # NoTopics /\ hybrid_query.recent # <<>>

HybridQueryWitness ==
    /\ pc = "combined"
    /\ Len(hybrid_query.recent) = 3
    /\ Cardinality({i \in 1..Len(chat_history) : chat_history[i].isUser}) > 3
    /\ ~chat_history[Len(chat_history)].isUser
    /\ chat_history[Len(chat_history) - 1].isUser
    /\ chat_history[Len(chat_history) - 2].isUser
    /\ hybrid_query.topics.kind = "summary"

\* C20: _extract_key_topics returns the concatenation of the last 3 user
\* turns when the history has at most 5 turns, without calling the language
\* model; with more than 5 turns it calls the model once on the last 15 turns
\* and, when that call fails, returns the same concatenation of the last 3
\* user turns; the failure is caught, never raised.
KeyTopicsFallBackToRecent ==
    pc = "combined" =>
        /\ Len(chat_history) <= 5 =>
              /\ key_topics.topics = LastUserTopics(chat_history)
              /\ key_topics.transcript = <<>>
              /\ calls = <<>>
              /\ failures = <<>>
        /\ Len(chat_history) > 5 =>
              /\ calls = <<"summarize">>
              /\ Len(key_topics.transcript) = Min(15, Len(chat_history))
              /\ \A i \in 1..Len(key_topics.transcript) :
                    LET turn == chat_history[Len(chat_history)
                                                - Len(key_topics.transcript) + i]
                    IN  /\ key_topics.transcript[i].isUser = turn.isUser
                        /\ key_topics.transcript[i].content = turn.content
              /\ HasFailed("summarize") =>
                    key_topics.topics = LastUserTopics(chat_history)

KeyTopicsFallBackWitness ==
    /\ pc = "combined"
    /\ Len(chat_history) > 15
    /\ HasFailed("summarize")
    /\ Len(key_topics.transcript) = 15
    /\ Len(key_topics.topics.queries) = 3

-----------------------------------------------------------------------------
(* Properties of _update_conversation_memory *)

\* the texts of the last k user turns of a history, oldest first
LastUserTextsUpTo(history, k) ==
    LET users == {i \in 1..Len(history) : history[i].isUser}
        last == {i \in users : Cardinality({j \in users : j > i}) < k}
        order == SeqOfSet(last)
    IN  [n \in 1..Len(order) |-> history[order[n]].content]

\* C21: when _update_conversation_memory runs with at least 4 turns and the
\* summarisation call fails, the call still returns, and the stored summary
\* becomes "Topics discussed: " followed by the last 5 user turns (all of
\* them when there are fewer) if the history has more than 8 turns, and
\* stays as it was if the history has 8 turns or fewer.
SummaryFallbackOnFailure ==
    [][(pc = "idle" /\ Len(chat_history') >= 4 /\ HasFailed("chat")') =>
          /\ pc' = "updated"
          /\ conversation_summary' =
                 IF Len(chat_history') > 8
                 THEN [kind |-> "topics",
                       queries |-> LastUserTextsUpTo(chat_history', 5)]
                 ELSE conversation_summary]_vars

SummaryFallbackWitness ==
    /\ pc = "updated"
    /\ HasFailed("chat")
    /\ Len(chat_history) = 9
    /\ Cardinality({i \in 1..Len(chat_history) : chat_history[i].isUser}) > 5
    /\ conversation_summary.kind = "topics"
    /\ Len(conversation_summary.queries) = 5

-----------------------------------------------------------------------------
(* Properties of the earlier turns _select_relevant_messages adds *)

\* the positions of the turns before the last 6 that a selection holds
EarlierIncluded(history, selection) ==
    {i \in 1..Len(history) - RecentTurns :
        \E k \in 1..Len(selection) : selection[k] = history[i]}

\* C22: _select_relevant_messages returns the history as it is when it has at
\* most 6 turns.  With more turns and the embedding computed, a turn before the
\* last 6 is included only if its similarity exceeds 0.3 and it is one of the
\* 4 most similar earlier turns: at most 4 are included and no excluded turn
\* is more similar than an included one.  When the embedding call fails, the
\* earlier turns included are the first 2 if the history has more than 12
\* turns, and none otherwise.
SelectAddsOnlySimilarTurns ==
    pc = "selected" =>
        LET early == EarlierIncluded(chat_history, selected_messages)
            all == 1..Len(chat_history) - RecentTurns
        IN  /\ Len(chat_history) <= 6 => selected_messages = chat_history
            /\ (Len(chat_history) > 6 /\ ~HasFailed("encode_history")) =>
                  /\ Cardinality(early) <= 4
                  /\ \A i \in early :
                        /\ similarities[i] > 3
                        /\ \A j \in all \ early : similarities[j] <= similarities[i]
            /\ (Len(chat_history) > 6 /\ HasFailed("encode_history")) =>
                  early = IF Len(chat_history) > 12 THEN {1, 2} ELSE {}

SelectAddsOnlySimilarWitness ==
    /\ pc = "selected"
    /\ ~HasFailed("encode_history")
    /\ Cardinality(EarlierIncluded(chat_history, selected_messages)) = 4
    /\ \E j \in 1..Len(chat_history) - RecentTurns :
          /\ j \notin EarlierIncluded(chat_history, selected_messages)
          /\ similarities[j] = 5

-----------------------------------------------------------------------------
(* Properties of the prompt of _prepare_messages_with_memory *)

\* C23: the composed messages are: the system prompt; a second system
\* message with the rolling summary exactly when the summary is not empty;
\* one message per selected turn, in the order of the turns in the history,
\* under the role user when the turn is the user's and assistant otherwise;
\* and last a user message that holds the retrieved documents and the query
\* as the user wrote it.
ComposedMessagesShape ==
    pc \in {"chat_stream", "update_memory"} =>
        LET n == Len(messages)
            mem == IF conversation_summary # EmptySummary THEN 1 ELSE 0
            k == Len(selected_messages)
            last == messages[n]
        IN  /\ n = 1 + mem + k + 1
            /\ messages[1].role = "system" /\ messages[1].kind = "system"
            /\ \A i \in 1..n : messages[i].kind = "memory" <=> (mem = 1 /\ i = 2)
            /\ mem = 1 => /\ messages[2].role = "system"
                          /\ messages[2].body = <<conversation_summary>>
            /\ \A i \in 1..k :
                  LET turn == selected_messages[i]
                      msg == messages[1 + mem + i]
                  IN  /\ msg.role = IF turn.isUser THEN "user" ELSE "assistant"
                      /\ msg.body = <<turn.content>>
                      /\ turn \in Range(chat_history)
                      /\ \A j \in i + 1..k :
                            PositionOf(chat_history, turn)
                                < PositionOf(chat_history, selected_messages[j])
            /\ last.role = "user" /\ last.kind = "context"
            /\ last.body[1].query = user_message
            /\ \A d \in 1..Len(retrieved_docs) :
                  \E c \in 1..Len(last.body[1].context) :
                     last.body[1].context[c].text.chunk = retrieved_docs[d].text.chunk

ComposedMessagesWitness ==
    /\ pc = "update_memory"
    /\ conversation_summary # EmptySummary
    /\ messages[2].kind = "memory"
    /\ Len(selected_messages) > 6
    /\ Len(selected_messages) < Len(chat_history)
    /\ Len(retrieved_docs) > 1
    /\ Len(messages) = Len(selected_messages) + 3

\* the numbers of the "SOURCE i:" lines of a formatted context, in order
SourceMarkers(formatted) ==
    LET marked == SelectSeq(formatted, LAMBDA item : item.source # 0)
    IN  [i \in 1..Len(marked) |-> marked[i].source]

\* C24: in the last user message the context has "SOURCE i:" lines exactly
\* when more than one document was retrieved and the label is not follow_up,
\* and then one line per document, numbered 1..n in the order of retrieval;
\* with one document, or under follow_up, it has none.  The code does not
\* keep it: the context is cut at every blank line, and the text of a chunk
\* under a heading has one after "# heading", so a single such document
\* comes out as SOURCE 1 and SOURCE 2.
SourceMarkersOnePerDocument ==
    pc = "prepared" =>
        LET markers == SourceMarkers(messages[Len(messages)].body[1].context)
            n == Len(retrieved_docs)
        IN  IF n > 1 /\ query_type # "follow_up"
            THEN markers = [i \in 1..n |-> i]
            ELSE markers = <<>>

-----------------------------------------------------------------------------
(* Properties of the progress callback of generate_and_store_embeddings *)

\* the batches of the running call whose upsert succeeded, in the order of the loop
UpsertedBatches ==
    LET ok == SelectSeq(batch_log,
                        LAMBDA b : b.outcome \in {"upserted", "callback_failed"})
    IN  [k \in 1..Len(ok) |-> ok[k].batch]

\* the number of chunks of batch b of the running call
ChunksOfBatch(b) ==
    IF (b + 1) * batch_size <= Len(index_chunks) THEN batch_size
    ELSE Len(index_chunks) - b * batch_size

RECURSIVE ChunksOfBatches(_)
ChunksOfBatches(bs) ==
    IF bs = <<>> THEN 0 ELSE ChunksOfBatch(bs[1]) + ChunksOfBatches(Tail(bs))

\* C25: during a call with a progress callback, the callback is invoked once
\* for each batch whose upsert succeeded, when the records of the batch are
\* in the index, in increasing order of the batches, and never for a batch
\* that failed; the processed_chunks it is handed is the number of chunks of
\* the batches upserted so far, and never more than total_chunks.
CallbackOncePerUpsertedBatch ==
    (pc \in {"indexing", "indexed"} /\ progress_callback) =>
        /\ Len(callbacks) = Len(UpsertedBatches)
        /\ \A k \in 1..Len(callbacks) :
              /\ callbacks[k].current_batch = UpsertedBatches[k] + 1
              /\ \A j \in 1..k - 1 :
                    callbacks[j].current_batch < callbacks[k].current_batch
              /\ callbacks[k].batch_size = ChunksOfBatch(UpsertedBatches[k])
              /\ callbacks[k].processed_chunks =
                     ChunksOfBatches(SubSeq(UpsertedBatches, 1, k))
              /\ callbacks[k].processed_chunks <= callbacks[k].total_chunks
              /\ callbacks[k].total_chunks = Len(index_chunks)
              /\ \A i \in 0..callbacks[k].batch_size - 1 :
                    UniqueId(UpsertedBatches[k], i) \in DOMAIN index_store

CallbackOncePerUpsertedWitness ==
    /\ pc = "indexed"
    /\ progress_callback
    /\ Len(batch_log) > 2
    /\ batch_log[1].outcome = "upsert_failed"
    /\ batch_log[2].outcome = "callback_failed"
    /\ Len(callbacks) = 2
    /\ callbacks[2].processed_chunks < callbacks[2].total_chunks

-----------------------------------------------------------------------------
(* Properties of the chat page *)

\* C26: the stream generate_response_stream returns on a generation error
\* is made of content-delta events closed by a message-end event, as an
\* answer stream is, so that the chat page, which collects only the
\* content-delta events, stores the apology as the reply of the assistant.
\* The code does not keep it: error_generator yields a plain string, which
\* has no type, and the page stores an empty reply.
ErrorStreamFollowsContract ==
    (pc = "chat_shown" /\ HasFailed("chat_stream")) =>
        /\ result.stream # <<>>
        /\ \A i \in 1..Len(result.stream) :
              result.stream[i].type =
                  IF i < Len(result.stream) THEN "content-delta" ELSE "message-end"
        /\ ~conversation[Len(conversation)].isUser
        /\ conversation[Len(conversation)].content =
               ReplyText("Error generating response. Please try again.")

\* C29: the summary in the prompt of a conversation derives only from turns
\* of that conversation; in particular the prompts of a conversation begun
\* with "New Chat" hold no summary made from the conversation before it.
\* The code does not keep it: start_new_chat leaves the RAGSystem of the
\* session, and its conversation_summary, as they are.
SummaryFromOwnConversation ==
    pc = "chat_call" =>
        (MemoryIn(messages) # EmptySummary => summary_from \subseteq {chat_id})

\* how many of the elements of a sequence satisfy a test
CountIn(s, Test(_)) == Cardinality({i \in 1..Len(s) : Test(s[i])})

\* C30: on the chat page the history handed to generate_response_stream
\* holds only the turns before the current message, so that the message
\* occurs once in the hybrid query, once in the transcript of the summary
\* update and once as a user message of the prompt.  The code does not keep
\* it: the page stores the prompt and reads the conversation back before the
\* call, so the history ends with the current message.
CurrentMessageOccursOnce ==
    (pc = "chat_consume" /\ transcript # <<>>) =>
        /\ \A i \in 1..Len(chat_history) : chat_history[i].content # user_message
        /\ CountIn(<<hybrid_query.query>> \o hybrid_query.recent,
                   LAMBDA q : q = user_message) = 1
        /\ CountIn(transcript, LAMBDA t : t.isUser /\ t.content = user_message) = 1
        /\ CountIn(messages,
                   LAMBDA m : /\ m.role = "user"
                              /\ \/ m.kind = "turn" /\ m.body = <<user_message>>
                                 \/ m.kind = "context" /\ m.body[1].query = user_message)
               = 1

-----------------------------------------------------------------------------
(* Properties of the bodies of the chunks of chunk_content *)

\* C28: chunk_content never emits a chunk with an empty body: for a section
\* whose heading prefix has fewer tokens than the budget every emitted chunk
\* holds at least one unit, and a section whose content is empty yields no
\* chunk.  The code does not keep it: a token slice is counted again after
\* decode and strip, and when the first slice of an accumulation counts more
\* tokens than the room behind the prefix the empty accumulation is flushed.
ChunksNeverEmpty ==
    max_tokens > prefix_tokens =>
        /\ \A c \in Range(chunks) : c.units # <<>>
        /\ (pc = "chunked" /\ \A b \in 1..Len(blocks) : blocks[b] = <<>>) =>
              chunks = <<>>

-----------------------------------------------------------------------------
(* Properties of parse_markdown *)

\* C27: parse_markdown loses no content: every line of the document that is
\* neither blank nor a main heading is in the content of exactly one section,
\* the lines before the first heading too; a document without a heading gives
\* one section with an empty heading that holds the whole text.  The code
\* does not keep it: the text before the first heading is in no section.
ParseLosesNoContent ==
    pc = "parsed" =>
        /\ \A i \in 1..Len(md_text) :
              md_text[i].kind \notin {"blank", "heading"} =>
                  Cardinality({k \in 1..Len(structured_data) :
                                  md_text[i] \in Range(structured_data[k].content)}) = 1
        /\ (\A i \in 1..Len(md_text) : md_text[i].kind # "heading") =>
              /\ Len(structured_data) = 1
              /\ structured_data[1].main_heading = <<>>
              /\ SelectSeq(structured_data[1].content, LAMBDA l : l.kind # "blank")
                     = SelectSeq(md_text, LAMBDA l : l.kind # "blank")

====
